---- MODULE Spec2Model ----
(***************************************************************************)
(* A model of the happy-faster-code repository graph, its BM25 index and   *)
(* the background indexing / file-watcher tasks that keep them up to date. *)
(*                                                                         *)
(* Strings are TLA+ strings; Option<T> is a sequence of length 0 or 1; a   *)
(* DashMap / HashMap is a function whose DOMAIN is the set of keys.        *)
(***************************************************************************)
EXTENDS Integers, Sequences, FiniteSets, TLC

None == <<>>
Some(x) == <<x>>

\* ------------------------------------------------------------------------
\* std helpers used by the code
\* ------------------------------------------------------------------------

starts_with(s, p) == Len(p) <= Len(s) /\ SubSeq(s, 1, Len(p)) = p

ends_with(s, p) == Len(p) <= Len(s) /\ SubSeq(s, Len(s) - Len(p) + 1, Len(s)) = p

contains(s, p) == \E i \in 0..(Len(s) - Len(p)) : SubSeq(s, i + 1, i + Len(p)) = p

\* Index of the last occurrence of the one-character string c in s, 0 if none.
rfind(s, c) ==
    LET I == {i \in 1..Len(s) : SubSeq(s, i, i) = c}
    IN IF I = {} THEN 0 ELSE CHOOSE i \in I : \A j \in I : j <= i

strip_suffix(s, p) == IF ends_with(s, p) THEN Some(SubSeq(s, 1, Len(s) - Len(p))) ELSE None

RECURSIVE replace_seps(_)
replace_seps(s) ==
    IF s = "" THEN ""
    ELSE LET c == SubSeq(s, 1, 1)
         IN (IF c \in {"/", "\\"} THEN "." ELSE c) \o replace_seps(SubSeq(s, 2, Len(s)))

RECURSIVE join(_, _)
join(parts, sep) ==
    IF parts = <<>> THEN ""
    ELSE IF Len(parts) = 1 THEN parts[1]
    ELSE parts[1] \o sep \o join(Tail(parts), sep)

\* Sequence helpers: Vec::retain is SelectSeq, Iterator::find is the first
\* element of what SelectSeq keeps.
first(seq) == IF seq = <<>> THEN None ELSE Some(seq[1])

Range(seq) == {seq[i] : i \in 1..Len(seq)}

\* Every order in which the members of a set can be visited.
Orders(S) == {o \in [1..Cardinality(S) -> S] : Range(o) = S}

\* Map helpers (insert, remove, entry().or_default().push()).
MapInsert(m, k, v) == [x \in (DOMAIN m) \cup {k} |-> IF x = k THEN v ELSE m[x]]

MapRemove(m, k) == [x \in (DOMAIN m) \ {k} |-> m[x]]

MapPush(m, k, v) == MapInsert(m, k, (IF k \in DOMAIN m THEN m[k] ELSE <<>>) \o <<v>>)

EmptyMap == <<>>

\* ------------------------------------------------------------------------
\* Paths, language registry, element ids, tokenizer
\* ------------------------------------------------------------------------

file_name(path) == SubSeq(path, rfind(path, "/") + 1, Len(path))

extension(path) ==
    LET f == file_name(path)
        d == rfind(f, ".")
    IN IF d <= 1 THEN None ELSE Some(SubSeq(f, d + 1, Len(f)))

from_extension(path) ==
    LET e == extension(path)
    IN IF e = None THEN None
       ELSE IF e[1] \in {"py", "pyi"} THEN Some("python")
       ELSE IF e[1] \in {"js", "mjs", "cjs"} THEN Some("javascript")
       ELSE IF e[1] \in {"ts", "mts", "cts"} THEN Some("typescript")
       ELSE IF e[1] \in {"tsx", "jsx"} THEN Some("tsx")
       ELSE IF e[1] = "rs" THEN Some("rust")
       ELSE IF e[1] = "go" THEN Some("go")
       ELSE IF e[1] = "java" THEN Some("java")
       ELSE IF e[1] \in {"cpp", "cc", "cxx", "hpp", "hxx", "h"} THEN Some("cpp")
       ELSE IF e[1] = "c" THEN Some("c")
       ELSE None

\* Path::strip_prefix for a root written without a trailing separator.
strip_prefix(path, root) ==
    IF path = root THEN Some("")
    ELSE IF starts_with(path, root \o "/")
         THEN Some(SubSeq(path, Len(root) + 2, Len(path)))
    ELSE None

file_path_to_module_path(file_path, repo_root) ==
    LET rel == strip_prefix(file_path, repo_root)
    IN IF rel = None THEN None
       ELSE LET exts == <<".py", ".ts", ".js", ".rs", ".go", ".java">>
                hit == first(SelectSeq(exts, LAMBDA x : ends_with(rel[1], x)))
                without_ext == IF hit = None THEN rel[1] ELSE strip_suffix(rel[1], hit[1])[1]
                dotted == replace_seps(without_ext)
                init == strip_suffix(dotted, ".__init__")
                module_path == IF init = None THEN dotted ELSE init[1]
            IN IF module_path = "" THEN None ELSE Some(module_path)

\* The first 16 hex digits of the blake3 hash, taken to be collision free on
\* the inputs of the model: the digest is written as its own preimage.
hex16(s) == "#" \o s

generate_element_id(type_, parts) == type_ \o "_" \o hex16(type_ \o "/" \o join(parts, "/"))

to_lowercase_char(c) ==
    CASE c = "A" -> "a" [] c = "B" -> "b" [] c = "C" -> "c" [] c = "D" -> "d"
      [] c = "E" -> "e" [] c = "F" -> "f" [] c = "G" -> "g" [] c = "H" -> "h"
      [] c = "I" -> "i" [] c = "J" -> "j" [] c = "K" -> "k" [] c = "L" -> "l"
      [] c = "M" -> "m" [] c = "N" -> "n" [] c = "O" -> "o" [] c = "P" -> "p"
      [] c = "Q" -> "q" [] c = "R" -> "r" [] c = "S" -> "s" [] c = "T" -> "t"
      [] c = "U" -> "u" [] c = "V" -> "v" [] c = "W" -> "w" [] c = "X" -> "x"
      [] c = "Y" -> "y" [] c = "Z" -> "z" [] OTHER -> c

RECURSIVE split_lower(_, _, _)
split_lower(s, i, cur) ==
    IF i > Len(s) THEN (IF cur = "" THEN <<>> ELSE <<cur>>)
    ELSE LET c == SubSeq(s, i, i)
         IN IF c \in {" ", "\n", "\t", "\r"}
            THEN (IF cur = "" THEN <<>> ELSE <<cur>>) \o split_lower(s, i + 1, "")
            ELSE split_lower(s, i + 1, cur \o to_lowercase_char(c))

tokenize(text) == split_lower(text, 1, "")

\* ------------------------------------------------------------------------
\* The source texts of the model and what the grammar makes of them
\* ------------------------------------------------------------------------

RepoRoot == "/r"
FileA == "/r/a.py"
FileB == "/r/b.py"
FileTxt == "/r/n.txt"
FileRs == "/r/c.rs"
FileARs == "/r/a.rs"
SourceFiles == {FileA, FileB}
\* The files a library caller passes to update_file and remove_file.
LibraryFiles == SourceFiles \cup {FileRs}

SrcFoo == "def foo(): pass"
SrcFooTwice == "def foo(): pass\ndef foo(): bar()"
SrcImport == "from b import bar\ndef baz(): bar()"
SrcBar == "def bar(): pass"
SrcClass == "class K: pass"
SrcShadow == "from b import bar\ndef bar(): pass\ndef baz(): bar()"
SrcEnum == "enum foo { A }\nfn foo() {}\nfn baz() { foo() }\nfn b() {}"
Texts == {SrcFoo, SrcFooTwice, SrcImport, SrcBar, SrcClass, SrcShadow, SrcEnum}

\* The texts each source file of the model can hold.
TextsOf(path) == IF path = FileA THEN {SrcFoo, SrcFooTwice, SrcImport, SrcClass, SrcShadow}
                 ELSE IF path \in {FileRs, FileARs} THEN {SrcEnum}
                 ELSE {SrcBar, SrcFoo}

\* How many update_file / remove_file calls a run of the library makes.
MaxCalls == 3

TsNode(kind, name, text, children) ==
    [kind |-> kind, name |-> name, text |-> text, children |-> children]

FnNode(name, text) == TsNode("function_definition", Some(name), text, <<>>)

\* Parser::parse: the concrete syntax tree of a source text (never absent:
\* the grammar produces a tree for every input).
parse(code, lang) ==
    Some(TsNode("module", None, code,
        CASE code = SrcFoo -> <<FnNode("foo", "def foo(): pass")>>
          [] code = SrcFooTwice -> <<FnNode("foo", "def foo(): pass"), FnNode("foo", "def foo(): bar()")>>
          [] code = SrcImport -> <<FnNode("baz", "def baz(): bar()")>>
          [] code = SrcBar -> <<FnNode("bar", "def bar(): pass")>>
          [] code = SrcShadow -> <<FnNode("bar", "def bar(): pass"), FnNode("baz", "def baz(): bar()")>>
          [] code = "def foo(): bar()" -> <<FnNode("foo", "def foo(): bar()")>>
          [] code = "def baz(): bar()" -> <<FnNode("baz", "def baz(): bar()")>>
          [] code = SrcClass -> <<TsNode("class_definition", Some("K"), "class K: pass", <<>>)>>
          [] code = SrcEnum -> <<TsNode("enum_item", Some("foo"), "enum foo { A }", <<>>),
                                 TsNode("function_item", Some("foo"), "fn foo() {}", <<>>),
                                 TsNode("function_item", Some("baz"), "fn baz() { foo() }", <<>>),
                                 TsNode("function_item", Some("b"), "fn b() {}", <<>>)>>
          [] code = "fn b() {}" -> <<TsNode("function_item", Some("b"), "fn b() {}", <<>>)>>
          [] code = "fn foo() {}" -> <<TsNode("function_item", Some("foo"), "fn foo() {}", <<>>)>>
          [] code = "fn baz() { foo() }" ->
                 <<TsNode("function_item", Some("baz"), "fn baz() { foo() }", <<>>)>>
          [] OTHER -> <<>>))

\* extract_calls: the call names in a tree, in source order.
extract_calls(tree, code, lang) ==
    IF contains(code, ": bar()") THEN <<[call_name |-> "bar"]>>
    ELSE IF contains(code, "{ foo() }") THEN <<[call_name |-> "foo"]>>
    ELSE <<>>

\* extract_imports: the import records of a tree.
extract_imports(tree, code, lang) ==
    IF starts_with(code, "from b import bar")
    THEN <<[module |-> "b", names |-> <<"bar">>, level |-> 0]>>
    ELSE <<>>

\* ------------------------------------------------------------------------
\* Indexer / walker
\* ------------------------------------------------------------------------

is_function_kind(kind) ==
    kind \in {"function_definition", "function_declaration", "method_definition",
              "function_item", "method_declaration", "constructor_declaration"}

is_class_like_kind(kind) ==
    kind \in {"class_definition", "class_declaration", "struct_item", "enum_item",
              "impl_item", "struct_specifier", "enum_specifier",
              "interface_declaration", "enum_declaration"}

classify_class_kind(kind) ==
    IF kind \in {"struct_item", "struct_specifier"} THEN "struct"
    ELSE IF kind \in {"enum_item", "enum_specifier", "enum_declaration"} THEN "enum"
    ELSE IF kind = "interface_declaration" THEN "interface"
    ELSE "class"

CodeElement(id, element_type, name, file_path, relative_path, language, code) ==
    [id |-> id, element_type |-> element_type, name |-> name, file_path |-> file_path,
     relative_path |-> relative_path, language |-> language, code |-> code,
     docstring |-> None]

RECURSIVE collect_definitions(_, _, _, _, _)
RECURSIVE collect_children(_, _, _, _, _)
collect_definitions(node, file_path, relative_path, language, parent_class) ==
    IF is_function_kind(node.kind) /\ node.name # None
    THEN LET element_type == IF parent_class # None THEN "method" ELSE "function"
             id_parts == IF parent_class # None
                         THEN <<relative_path, parent_class[1], node.name[1]>>
                         ELSE <<relative_path, node.name[1]>>
             id == generate_element_id(element_type, id_parts)
         IN <<CodeElement(id, element_type, node.name[1], file_path, relative_path,
                          language, node.text)>>
            \o collect_children(node.children, file_path, relative_path, language, parent_class)
    ELSE IF (~is_function_kind(node.kind)) /\ is_class_like_kind(node.kind) /\ node.name # None
    THEN LET element_type == classify_class_kind(node.kind)
             id == generate_element_id(element_type, <<relative_path, node.name[1]>>)
         IN <<CodeElement(id, element_type, node.name[1], file_path, relative_path,
                          language, node.text)>>
            \o collect_children(node.children, file_path, relative_path, language, node.name)
    ELSE collect_children(node.children, file_path, relative_path, language, parent_class)

collect_children(children, file_path, relative_path, language, parent_class) ==
    IF children = <<>> THEN <<>>
    ELSE collect_definitions(Head(children), file_path, relative_path, language, parent_class)
         \o collect_children(Tail(children), file_path, relative_path, language, parent_class)

extract_elements_from_tree(tree, code, file_path, relative_path, language) ==
    <<CodeElement(generate_element_id("file", <<relative_path>>), "file",
                  file_name(file_path), file_path, relative_path, language, code)>>
    \o collect_definitions(tree, file_path, relative_path, language, None)

\* std::fs::read_to_string on a file system fs: path -> Option<text>, where a
\* path outside DOMAIN fs does not exist and None is a file that cannot be read.
read_to_string(fs, path) == IF path \in DOMAIN fs THEN fs[path] ELSE None

index_single_file(fs, file_path, repo_root) ==
    LET lang == from_extension(file_path)
        code == read_to_string(fs, file_path)
    IN IF lang = None \/ code = None THEN None
       ELSE LET tree == parse(code[1], lang[1])
                rel == strip_prefix(file_path, repo_root)
                relative == IF rel = None THEN file_path ELSE rel[1]
            IN IF tree = None THEN None
               ELSE Some(extract_elements_from_tree(tree[1], code[1], file_path, relative, lang[1]))

\* walk_and_index: the elements of every readable supported file; `order` is
\* the order in which the parallel workers append their files' elements.
RECURSIVE walk_and_index(_, _, _)
walk_and_index(fs, repo_root, order) ==
    IF order = <<>> THEN <<>>
    ELSE LET got == IF Head(order) \in DOMAIN fs
                    THEN index_single_file(fs, Head(order), repo_root) ELSE None
         IN (IF got = None THEN <<>> ELSE got[1]) \o walk_and_index(fs, repo_root, Tail(order))


\* ------------------------------------------------------------------------
\* GlobalIndex and its resolvers (the graph record g carries file_map,
\* module_map and export_map, the three maps of its global_index)
\* ------------------------------------------------------------------------

RECURSIVE global_index_build(_, _, _)
global_index_build(g, elements, repo_root) ==
    IF elements = <<>> THEN g
    ELSE LET elem == Head(elements)
             module_path == file_path_to_module_path(elem.file_path, repo_root)
             g2 == IF elem.element_type = "file"
                   THEN IF module_path # None
                        THEN [g EXCEPT !.file_map = MapInsert(@, elem.file_path, module_path[1]),
                                       !.module_map = MapInsert(@, module_path[1], elem.file_path)]
                        ELSE g
                   ELSE [g EXCEPT !.export_map = MapPush(@, elem.name, <<elem.file_path, elem.id>>)]
         IN global_index_build(g2, Tail(elements), repo_root)

resolve_module(g, module_path) ==
    IF module_path \in DOMAIN g.module_map THEN Some(g.module_map[module_path]) ELSE None

resolve_symbol(g, symbol) ==
    IF symbol \in DOMAIN g.export_map THEN g.export_map[symbol] ELSE <<>>

file_to_module(g, file_path) ==
    IF file_path \in DOMAIN g.file_map THEN Some(g.file_map[file_path]) ELSE None

\* remove_file without the removal from module_map.
global_index_remove_file_keeping_module(g, file_path) ==
    LET g1 == IF file_path \in DOMAIN g.file_map
              THEN [g EXCEPT !.file_map = MapRemove(@, file_path)]
              ELSE g
        retained == [k \in DOMAIN g1.export_map |->
                        SelectSeq(g1.export_map[k], LAMBDA e : e[1] # file_path)]
        kept == {k \in DOMAIN retained : retained[k] # <<>>}
    IN [g1 EXCEPT !.export_map = [k \in kept |-> retained[k]]]

global_index_remove_file(g, file_path) ==
    LET g1 == IF file_path \in DOMAIN g.file_map
              THEN [g EXCEPT !.file_map = MapRemove(@, file_path),
                             !.module_map = MapRemove(@, g.file_map[file_path])]
              ELSE g
        retained == [k \in DOMAIN g1.export_map |->
                        SelectSeq(g1.export_map[k], LAMBDA e : e[1] # file_path)]
        kept == {k \in DOMAIN retained : retained[k] # <<>>}
    IN [g1 EXCEPT !.export_map = [k \in kept |-> retained[k]]]

\* str::split on a one-character separator.
RECURSIVE split(_, _)
split(s, c) ==
    LET I == {i \in 1..Len(s) : SubSeq(s, i, i) = c}
    IN IF I = {} THEN <<s>>
       ELSE LET i == CHOOSE x \in I : \A y \in I : x <= y
            IN <<SubSeq(s, 1, i - 1)>> \o split(SubSeq(s, i + 1, Len(s)), c)

\* str::replace.
RECURSIVE replace(_, _, _)
replace(s, from, to) ==
    IF Len(s) < Len(from) \/ s = "" THEN s
    ELSE IF starts_with(s, from) THEN to \o replace(SubSeq(s, Len(from) + 1, Len(s)), from, to)
    ELSE SubSeq(s, 1, 1) \o replace(SubSeq(s, 2, Len(s)), from, to)

resolve_absolute_import(g, import) ==
    LET direct == resolve_module(g, import.module)
        package == resolve_module(g, import.module \o ".__init__")
        dot_pos == rfind(import.module, ".")
    IN IF direct # None THEN direct
       ELSE IF package # None THEN package
       ELSE IF dot_pos > 0 THEN resolve_module(g, SubSeq(import.module, 1, dot_pos - 1))
       ELSE None

resolve_relative_import(g, import, current_file) ==
    LET current_module == file_to_module(g, current_file)
    IN IF current_module = None THEN None
       ELSE LET parts == split(current_module[1], ".")
            IN IF import.level > Len(parts) THEN None
               ELSE LET base == join(SubSeq(parts, 1, Len(parts) - import.level), ".")
                        target_module == IF import.module = "" THEN base
                                         ELSE IF base = "" THEN import.module
                                         ELSE base \o "." \o import.module
                    IN resolve_module(g, target_module)

resolve_import(g, import, current_file) ==
    IF import.level > 0 THEN resolve_relative_import(g, import, current_file)
    ELSE resolve_absolute_import(g, import)

resolve_in_context(g, symbol, current_file, imported_modules) ==
    LET all == resolve_symbol(g, symbol)
    IN IF imported_modules = <<>> THEN all
       ELSE SelectSeq(all, LAMBDA e :
                LET module == file_to_module(g, e[1])
                IN module # None /\ \E i \in 1..Len(imported_modules) :
                                        starts_with(module[1], imported_modules[i]))

\* ------------------------------------------------------------------------
\* RepositoryGraph: the stable graph and its lookup indexes
\* ------------------------------------------------------------------------

\* RepositoryGraph::new. nodes[i] is the slot of NodeIndex i (None: vacant),
\* free_node the stack of vacant slots, edges the edges in insertion order.
NewGraph ==
    [nodes |-> <<>>, free_node |-> <<>>, edges |-> <<>>,
     id_to_node |-> EmptyMap, name_to_nodes |-> EmptyMap, file_to_nodes |-> EmptyMap,
     element_arena |-> EmptyMap, file_imports |-> EmptyMap,
     file_map |-> EmptyMap, module_map |-> EmptyMap, export_map |-> EmptyMap]

\* StableGraph::add_node: reuses the most recently vacated slot, else appends.
next_index(g) == IF g.free_node # <<>> THEN Head(g.free_node) ELSE Len(g.nodes) + 1

graph_add_node(g, node) ==
    IF g.free_node # <<>>
    THEN [g EXCEPT !.nodes[Head(g.free_node)] = Some(node), !.free_node = Tail(@)]
    ELSE [g EXCEPT !.nodes = Append(@, Some(node))]

\* StableGraph::remove_node: the slot becomes vacant, every incident edge goes.
graph_remove_node(g, idx) ==
    [g EXCEPT !.nodes[idx] = None,
              !.free_node = <<idx>> \o @,
              !.edges = SelectSeq(@, LAMBDA e : e.from # idx /\ e.to # idx)]

graph_add_edge(g, from, to, kind) ==
    [g EXCEPT !.edges = Append(@, [from |-> from, to |-> to, kind |-> kind])]

NodeKindFrom(element_type) == IF element_type = "import" THEN "module" ELSE element_type

GraphNode(elem) ==
    [id |-> elem.id, kind |-> NodeKindFrom(elem.element_type), name |-> elem.name,
     file_path |-> elem.file_path]

add_node(g, node) ==
    LET idx == next_index(g)
        g1 == graph_add_node(g, node)
    IN [g1 EXCEPT !.id_to_node = MapInsert(@, node.id, idx),
                  !.name_to_nodes = MapPush(@, node.name, idx),
                  !.file_to_nodes = MapPush(@, node.file_path, idx)]

\* Phase 1 of build_from_elements, phase 2 of update_file.
RECURSIVE add_elements(_, _)
add_elements(g, elements) ==
    IF elements = <<>> THEN g
    ELSE LET elem == Head(elements)
             g1 == add_node(g, GraphNode(elem))
         IN add_elements([g1 EXCEPT !.element_arena = MapInsert(@, elem.id, elem)],
                         Tail(elements))

file_node_of(g, file_path) ==
    IF file_path \in DOMAIN g.file_to_nodes
    THEN first(SelectSeq(g.file_to_nodes[file_path], LAMBDA idx : g.nodes[idx][1].kind = "file"))
    ELSE None

\* The defines-edge loop of build_from_elements and of update_file.
RECURSIVE add_defines_edges(_, _)
add_defines_edges(g, elements) ==
    IF elements = <<>> THEN g
    ELSE LET elem == Head(elements)
             file_idx == file_node_of(g, elem.file_path)
             g1 == IF elem.element_type # "file" /\ file_idx # None
                      /\ elem.id \in DOMAIN g.id_to_node
                   THEN graph_add_edge(g, file_idx[1], g.id_to_node[elem.id], "defines")
                   ELSE g
         IN add_defines_edges(g1, Tail(elements))

get_source(g, element_id) ==
    IF element_id \in DOMAIN g.element_arena THEN Some(g.element_arena[element_id].code)
    ELSE None

live_nodes(g) == {i \in 1..Len(g.nodes) : g.nodes[i] # None}

stats(g) ==
    [node_count |-> Cardinality(live_nodes(g)), edge_count |-> Len(g.edges),
     file_count |-> Cardinality(DOMAIN g.file_to_nodes),
     element_count |-> Cardinality(DOMAIN g.element_arena)]

element_ids_for_file(g, file_path) ==
    IF file_path \in DOMAIN g.file_to_nodes
    THEN [i \in 1..Len(g.file_to_nodes[file_path]) |-> g.nodes[g.file_to_nodes[file_path][i]][1].id]
    ELSE <<>>


\* ------------------------------------------------------------------------
\* Edge construction
\* ------------------------------------------------------------------------

first_of(m, k) == IF k \in DOMAIN m /\ m[k] # <<>> THEN Some(m[k][1]) ELSE None

\* The fallback that picks the newest node of the graph, whatever its name.
resolve_import_target_newest_node(g, import, order) ==
    IF live_nodes(g) = {} THEN None
    ELSE Some(CHOOSE i \in live_nodes(g) : \A j \in live_nodes(g) : j <= i)

\* `order` is the iteration order of the file_to_nodes map.
resolve_import_target_heuristic(g, import, order) ==
    LET direct == first_of(g.name_to_nodes, import.module)
        seg == SubSeq(import.module, rfind(import.module, ".") + 1, Len(import.module))
        by_seg == IF seg # import.module THEN first_of(g.name_to_nodes, seg) ELSE None
        normalized == replace(replace(import.module, ".", "/"), "::", "/")
        hit == first(SelectSeq(order, LAMBDA fp : fp \in DOMAIN g.file_to_nodes
                                       /\ contains(fp, normalized)
                                       /\ file_node_of(g, fp) # None))
    IN IF direct # None THEN direct
       ELSE IF by_seg # None THEN by_seg
       ELSE IF hit # None THEN file_node_of(g, hit[1])
       ELSE None

RECURSIVE link_imported_names(_, _, _)
link_imported_names(g, file_idx, names) ==
    IF names = <<>> THEN g
    ELSE LET name == Head(names)
             resolved == resolve_symbol(g, name)
             linked == IF resolved # <<>> /\ resolved[1][2] \in DOMAIN g.id_to_node
                       THEN Some(g.id_to_node[resolved[1][2]]) ELSE None
             target == IF linked # None THEN linked ELSE first_of(g.name_to_nodes, name)
             g1 == IF name # "*" /\ target # None
                   THEN graph_add_edge(g, file_idx, target[1], "imports") ELSE g
         IN link_imported_names(g1, file_idx, Tail(names))

RECURSIVE add_import_edges(_, _, _, _, _)
add_import_edges(g, file_idx, file_path, imports, order) ==
    IF imports = <<>> THEN g
    ELSE LET import == Head(imports)
             resolved_path == resolve_import(g, import, file_path)
             resolved_via_index == IF resolved_path = None THEN None
                                   ELSE file_node_of(g, resolved_path[1])
             target_idx == IF resolved_via_index # None THEN resolved_via_index
                           ELSE resolve_import_target_heuristic(g, import, order)
             g1 == IF target_idx # None
                   THEN graph_add_edge(g, file_idx, target_idx[1], "imports") ELSE g
         IN add_import_edges(link_imported_names(g1, file_idx, import.names),
                             file_idx, file_path, Tail(imports), order)

RECURSIVE imported_names_of(_)
imported_names_of(imports) ==
    IF imports = <<>> THEN <<>>
    ELSE <<Head(imports).module>> \o Head(imports).names \o imported_names_of(Tail(imports))

RECURSIVE build_import_edges(_, _, _)
build_import_edges(g, elements, order) ==
    IF elements = <<>> THEN g
    ELSE LET elem == Head(elements)
             lang == from_extension(elem.file_path)
             tree == IF lang = None THEN None ELSE parse(elem.code, lang[1])
             g2 == IF elem.element_type # "file" \/ lang = None \/ tree = None
                      \/ elem.id \notin DOMAIN g.id_to_node
                   THEN g
                   ELSE LET imports == extract_imports(tree[1], elem.code, lang[1])
                            g1 == [g EXCEPT !.file_imports =
                                      MapInsert(@, elem.file_path, imported_names_of(imports))]
                        IN add_import_edges(g1, g.id_to_node[elem.id], elem.file_path,
                                            imports, order)
         IN build_import_edges(g2, Tail(elements), order)

\* resolve_call_target without its "Priority 1: Same file" step.
resolve_call_target_without_same_file(g, callee_name, candidates, caller_file, imported_names) ==
    LET resolved == resolve_in_context(g, callee_name, caller_file, imported_names)
        in_candidates == first(SelectSeq(resolved, LAMBDA e : e[2] \in DOMAIN g.id_to_node
                                             /\ g.id_to_node[e[2]] \in Range(candidates)))
        from_import == first(SelectSeq(candidates, LAMBDA idx :
                          \E i \in 1..Len(imported_names) :
                              \/ contains(g.nodes[idx][1].file_path, imported_names[i])
                              \/ g.nodes[idx][1].name = imported_names[i]))
    IN IF resolved # <<>> /\ in_candidates # None
       THEN Some(g.id_to_node[in_candidates[1][2]])
       ELSE IF resolved # <<>> /\ resolved[1][2] \in DOMAIN g.id_to_node
            THEN Some(g.id_to_node[resolved[1][2]])
       ELSE IF imported_names # <<>> /\ from_import # None THEN from_import
       ELSE IF candidates # <<>> THEN Some(candidates[1])
       ELSE None

resolve_call_target(g, callee_name, candidates, caller_file, imported_names) ==
    LET same_file == first(SelectSeq(candidates, LAMBDA idx : g.nodes[idx][1].file_path = caller_file))
        resolved == resolve_in_context(g, callee_name, caller_file, imported_names)
        in_candidates == first(SelectSeq(resolved, LAMBDA e : e[2] \in DOMAIN g.id_to_node
                                             /\ g.id_to_node[e[2]] \in Range(candidates)))
        from_import == first(SelectSeq(candidates, LAMBDA idx :
                          \E i \in 1..Len(imported_names) :
                              \/ contains(g.nodes[idx][1].file_path, imported_names[i])
                              \/ g.nodes[idx][1].name = imported_names[i]))
    IN IF same_file # None THEN same_file
       ELSE IF resolved # <<>> /\ in_candidates # None
            THEN Some(g.id_to_node[in_candidates[1][2]])
       ELSE IF resolved # <<>> /\ resolved[1][2] \in DOMAIN g.id_to_node
            THEN Some(g.id_to_node[resolved[1][2]])
       ELSE IF imported_names # <<>> /\ from_import # None THEN from_import
       ELSE IF candidates # <<>> THEN Some(candidates[1])
       ELSE None

\* add_call_edges with every edge drawn from the callee to the caller.
RECURSIVE add_call_edges_reversed(_, _, _, _, _)
add_call_edges_reversed(g, caller_idx, caller_file, imported_names, calls) ==
    IF calls = <<>> THEN g
    ELSE LET callee_name == Head(calls).call_name
             best_idx == IF callee_name \in DOMAIN g.name_to_nodes
                         THEN resolve_call_target(g, callee_name, g.name_to_nodes[callee_name],
                                                  caller_file, imported_names)
                         ELSE None
             g1 == IF best_idx # None /\ best_idx # Some(caller_idx)
                   THEN graph_add_edge(g, best_idx[1], caller_idx, "calls") ELSE g
         IN add_call_edges_reversed(g1, caller_idx, caller_file, imported_names, Tail(calls))

RECURSIVE add_call_edges(_, _, _, _, _)
add_call_edges(g, caller_idx, caller_file, imported_names, calls) ==
    IF calls = <<>> THEN g
    ELSE LET callee_name == Head(calls).call_name
             best_idx == IF callee_name \in DOMAIN g.name_to_nodes
                         THEN resolve_call_target(g, callee_name, g.name_to_nodes[callee_name],
                                                  caller_file, imported_names)
                         ELSE None
             g1 == IF best_idx # None /\ best_idx # Some(caller_idx)
                   THEN graph_add_edge(g, caller_idx, best_idx[1], "calls") ELSE g
         IN add_call_edges(g1, caller_idx, caller_file, imported_names, Tail(calls))

RECURSIVE build_call_edges(_, _)
build_call_edges(g, elements) ==
    IF elements = <<>> THEN g
    ELSE LET elem == Head(elements)
             lang == from_extension(elem.file_path)
             tree == IF lang = None THEN None ELSE parse(elem.code, lang[1])
             g1 == IF elem.element_type \notin {"function", "method"} \/ lang = None
                      \/ tree = None \/ elem.id \notin DOMAIN g.id_to_node
                   THEN g
                   ELSE add_call_edges(g, g.id_to_node[elem.id], elem.file_path,
                            IF elem.file_path \in DOMAIN g.file_imports
                            THEN g.file_imports[elem.file_path] ELSE <<>>,
                            extract_calls(tree[1], elem.code, lang[1]))
         IN build_call_edges(g1, Tail(elements))

\* Node::utf8_text(source): the slice source[start_byte..end_byte] of a node
\* that starts at byte 0; the slice panics when source is too short.
utf8_text(node, source) ==
    IF Len(node.text) > Len(source) THEN [panicked |-> TRUE, text |-> ""]
    ELSE [panicked |-> FALSE, text |-> SubSeq(source, 1, Len(node.text))]

\* collect_bases_recursive reads the root's text out of an empty source
\* before it looks at the node it was given.
collect_bases_recursive(node, language, tree) ==
    LET code_bytes == utf8_text(tree, "")
    IN [panicked |-> code_bytes.panicked, bases |-> <<>>]

\* The root is visited after its children, so it is visited in every tree.
extract_base_classes(tree, language) == collect_bases_recursive(tree, language, tree)

RECURSIVE add_inherits_edges(_, _, _)
add_inherits_edges(g, class_idx, base_names) ==
    IF base_names = <<>> THEN g
    ELSE LET base_idx == first_of(g.name_to_nodes, Head(base_names))
             g1 == IF base_idx # None
                   THEN graph_add_edge(g, class_idx, base_idx[1], "inherits") ELSE g
         IN add_inherits_edges(g1, class_idx, Tail(base_names))

\* The result names the graph and whether the call returned (FALSE: it panicked
\* and left the graph as it was at that point).
RECURSIVE build_inheritance_edges(_, _)
build_inheritance_edges(g, elements) ==
    IF elements = <<>> THEN [graph |-> g, completed |-> TRUE]
    ELSE LET elem == Head(elements)
             lang == from_extension(elem.file_path)
             tree == IF lang = None THEN None ELSE parse(elem.code, lang[1])
         IN IF elem.element_type \notin {"class", "struct", "interface"} \/ lang = None
               \/ tree = None \/ elem.id \notin DOMAIN g.id_to_node
            THEN build_inheritance_edges(g, Tail(elements))
            ELSE LET got == extract_base_classes(tree[1], lang[1])
                 IN IF got.panicked THEN [graph |-> g, completed |-> FALSE]
                    ELSE build_inheritance_edges(
                             add_inherits_edges(g, g.id_to_node[elem.id], got.bases),
                             Tail(elements))

\* ------------------------------------------------------------------------
\* RepositoryGraph: build, remove, update
\* ------------------------------------------------------------------------

\* The phases of build_from_elements, innermost first: nodes and arena, global
\* index, defines edges, import edges, call edges, inheritance edges.
build_from_elements(g, elements, repo_root, order) ==
    build_inheritance_edges(
        build_call_edges(
            build_import_edges(
                add_defines_edges(
                    global_index_build(add_elements(g, elements), elements, repo_root),
                    elements),
                elements, order),
            elements),
        elements)

\* remove_file whose clean-up forgets the name index.
RECURSIVE remove_nodes_keep_names(_, _)
remove_nodes_keep_names(g, indices) ==
    IF indices = <<>> THEN g
    ELSE LET idx == Head(indices)
             id == g.nodes[idx][1].id
             g2 == [g EXCEPT !.id_to_node = MapRemove(@, id),
                             !.element_arena = MapRemove(@, id)]
         IN remove_nodes_keep_names(graph_remove_node(g2, idx), Tail(indices))

RECURSIVE remove_nodes(_, _)
remove_nodes(g, indices) ==
    IF indices = <<>> THEN g
    ELSE LET idx == Head(indices)
             name == g.nodes[idx][1].name
             id == g.nodes[idx][1].id
             g1 == IF name \in DOMAIN g.name_to_nodes
                   THEN [g EXCEPT !.name_to_nodes[name] = SelectSeq(@, LAMBDA i : i # idx)]
                   ELSE g
             g2 == [g1 EXCEPT !.id_to_node = MapRemove(@, id),
                              !.element_arena = MapRemove(@, id)]
         IN remove_nodes(graph_remove_node(g2, idx), Tail(indices))

remove_file(g, file_path) ==
    LET g1 == IF file_path \in DOMAIN g.file_to_nodes
              THEN remove_nodes([g EXCEPT !.file_to_nodes = MapRemove(@, file_path)],
                                g.file_to_nodes[file_path])
              ELSE g
    IN [g1 EXCEPT !.file_imports = MapRemove(@, file_path)]

\* The last phase of update_file, reached when no earlier phase panicked: the
\* defines edges of the new elements.
update_file_defines(r, new_elements) ==
    IF r.completed
    THEN [graph |-> add_defines_edges(r.graph, new_elements), completed |-> TRUE]
    ELSE r

\* update_file that adds the new elements without removing the old ones first.
update_file_without_removal(g, file_path, new_elements, repo_root, order) ==
    update_file_defines(
        build_inheritance_edges(
            build_call_edges(
                build_import_edges(
                    global_index_build(add_elements(g, new_elements), new_elements, repo_root),
                    new_elements, order),
                new_elements),
            new_elements),
        new_elements)

\* The phases of update_file, innermost first: remove the file from the graph
\* and from the global index, add the new nodes, index them, then the import,
\* call and inheritance edges, and last the defines edges.
update_file(g, file_path, new_elements, repo_root, order) ==
    update_file_defines(
        build_inheritance_edges(
            build_call_edges(
                build_import_edges(
                    global_index_build(
                        add_elements(
                            global_index_remove_file(remove_file(g, file_path), file_path),
                            new_elements),
                        new_elements, repo_root),
                    new_elements, order),
                new_elements),
            new_elements),
        new_elements)


\* ------------------------------------------------------------------------
\* RepositoryGraph: queries
\* ------------------------------------------------------------------------

find_nodes_by_name(g, name) ==
    IF name \in DOMAIN g.name_to_nodes THEN g.name_to_nodes[name] ELSE <<>>

find_nodes_by_file(g, file_path) ==
    IF file_path \in DOMAIN g.file_to_nodes THEN g.file_to_nodes[file_path] ELSE <<>>

Reverse(seq) == [i \in 1..Len(seq) |-> seq[Len(seq) + 1 - i]]

\* Graph::neighbors_directed: one entry per edge of the node in the given
\* direction. add_edge puts a new edge at the head of both its endpoints' edge
\* lists, so the walk meets the newest edge first.
neighbors_directed(g, idx, dir) ==
    LET mine == Reverse(SelectSeq(g.edges, LAMBDA e :
                            IF dir = "outgoing" THEN e.from = idx ELSE e.to = idx))
    IN [i \in 1..Len(mine) |-> IF dir = "outgoing" THEN mine[i].to ELSE mine[i].from]

\* Graph::find_edge(a, b): the first edge to b in a's outgoing list, that is
\* the newest of the edges from a to b.
find_edge(g, a, b) ==
    first(Reverse(SelectSeq(g.edges, LAMBDA e : e.from = a /\ e.to = b)))

\* The loop body the six kind-filtered queries share: the neighbours of idx
\* in direction dir whose find_edge with idx has the queried kind.
neighbors_of_kind(g, idx, dir, kind) ==
    SelectSeq(neighbors_directed(g, idx, dir), LAMBDA neighbor :
        LET edge_idx == IF dir = "outgoing" THEN find_edge(g, idx, neighbor)
                        ELSE find_edge(g, neighbor, idx)
        IN edge_idx # None /\ edge_idx[1].kind = kind)

\* `for idx in indices { ... push ... }`; the result lists node indices where
\* the code lists references to the nodes.
RECURSIVE collect_neighbors(_, _, _, _)
collect_neighbors(g, indices, dir, kind) ==
    IF indices = <<>> THEN <<>>
    ELSE neighbors_of_kind(g, Head(indices), dir, kind)
         \o collect_neighbors(g, Tail(indices), dir, kind)

find_callers(g, symbol) ==
    collect_neighbors(g, find_nodes_by_name(g, symbol), "incoming", "calls")

find_callees(g, symbol) ==
    collect_neighbors(g, find_nodes_by_name(g, symbol), "outgoing", "calls")

file_nodes_of(g, file_path) ==
    SelectSeq(find_nodes_by_file(g, file_path), LAMBDA idx : g.nodes[idx][1].kind = "file")

get_dependencies(g, file_path) ==
    collect_neighbors(g, file_nodes_of(g, file_path), "outgoing", "imports")

get_dependents(g, file_path) ==
    collect_neighbors(g, file_nodes_of(g, file_path), "incoming", "imports")

get_subclasses(g, class_name) ==
    collect_neighbors(g, find_nodes_by_name(g, class_name), "incoming", "inherits")

get_superclasses(g, class_name) ==
    collect_neighbors(g, find_nodes_by_name(g, class_name), "outgoing", "inherits")

\* ---- find_path ----

\* The width of usize, and usize::MAX.
UsizeBits == 4
UsizeMax == 2^UsizeBits - 1

\* The edge_cost closure find_path gives to astar.
edge_cost(kind, edge_filter) ==
    IF edge_filter # None /\ kind # edge_filter[1] THEN UsizeMax \div 2 ELSE 1

\* Graph::edges(node): the outgoing edges of a node, newest first.
edges_of(g, node) == Reverse(SelectSeq(g.edges, LAMBDA e : e.from = node))

\* PathTracker::reconstruct_path_to: follows the predecessors back from the
\* goal. It does not end when the predecessors form a cycle: None.
RECURSIVE reconstruct_path_to(_, _, _)
reconstruct_path_to(came_from, last, fuel) ==
    IF last \notin DOMAIN came_from THEN Some(<<last>>)
    ELSE IF fuel = 0 THEN None
    ELSE IF reconstruct_path_to(came_from, came_from[last], fuel - 1) = None THEN None
    ELSE Some(Append(reconstruct_path_to(came_from, came_from[last], fuel - 1)[1], last))

\* astar's loop over graph.edges(node). node_score + edge_cost(edge) is a
\* usize addition: it wraps in a build without overflow checks and panics in
\* a build with them, which `overflowed` records.
RECURSIVE relax(_, _, _, _, _)
relax(search, node, node_score, edges, edge_filter) ==
    IF edges = <<>> THEN search
    ELSE LET next == Head(edges).to
             sum == node_score + edge_cost(Head(edges).kind, edge_filter)
             next_score == sum % (UsizeMax + 1)
         IN relax(
              IF next \in DOMAIN search.scores /\ search.scores[next] <= next_score
              THEN [search EXCEPT !.overflowed = @ \/ sum > UsizeMax]
              ELSE [search EXCEPT !.overflowed = @ \/ sum > UsizeMax,
                                  !.scores = MapInsert(@, next, next_score),
                                  !.came_from = MapInsert(@, next, node),
                                  !.visit_next = Append(@, [score |-> next_score,
                                                            node |-> next])],
              node, node_score, Tail(edges), edge_filter)

\* The entries BinaryHeap::pop may give: those of the least score.
least_scored(visit_next) ==
    {i \in 1..Len(visit_next) :
        \A j \in 1..Len(visit_next) : visit_next[i].score <= visit_next[j].score}

without(seq, i) == [k \in 1..(Len(seq) - 1) |-> IF k < i THEN seq[k] ELSE seq[k + 1]]

\* petgraph::algo::astar with the estimate |_| 0: every outcome the search
\* can have, whichever of several entries of the least score the heap gives.
RECURSIVE astar_loop(_, _, _, _)
RECURSIVE astar_visit(_, _, _, _, _)
astar_loop(g, search, tgt, edge_filter) ==
    IF search.visit_next = <<>>
    THEN {[kind |-> "none", path |-> <<>>, overflowed |-> search.overflowed]}
    ELSE UNION {astar_visit(g, [search EXCEPT !.visit_next = without(@, i)],
                            search.visit_next[i], tgt, edge_filter) :
                i \in least_scored(search.visit_next)}

astar_visit(g, search, popped, tgt, edge_filter) ==
    IF popped.node = tgt
    THEN {[kind |-> IF reconstruct_path_to(search.came_from, tgt, Len(g.nodes)) = None
                    THEN "diverged" ELSE "found",
           path |-> IF reconstruct_path_to(search.came_from, tgt, Len(g.nodes)) = None
                    THEN <<>>
                    ELSE reconstruct_path_to(search.came_from, tgt, Len(g.nodes))[1],
           overflowed |-> search.overflowed]}
    ELSE IF /\ popped.node \in DOMAIN search.estimate_scores
            /\ search.estimate_scores[popped.node] <= popped.score
    THEN astar_loop(g, search, tgt, edge_filter)
    ELSE astar_loop(g,
                    relax([search EXCEPT !.estimate_scores =
                                             MapInsert(@, popped.node, popped.score)],
                          popped.node, search.scores[popped.node],
                          edges_of(g, popped.node), edge_filter),
                    tgt, edge_filter)

astar(g, src, tgt, edge_filter) ==
    astar_loop(g, [visit_next |-> <<[score |-> 0, node |-> src]>>,
                   scores |-> (src :> 0),
                   estimate_scores |-> EmptyMap,
                   came_from |-> EmptyMap,
                   overflowed |-> FALSE],
               tgt, edge_filter)

\* The order of `for &tgt in &target_indices { for &src in &source_indices`.
candidate_pairs_targets_first(source_indices, target_indices) ==
    [k \in 1..(Len(source_indices) * Len(target_indices)) |->
        <<source_indices[((k - 1) % Len(source_indices)) + 1],
          target_indices[((k - 1) \div Len(source_indices)) + 1]>>]

\* The order of `for &src in &source_indices { for &tgt in &target_indices`.
candidate_pairs(source_indices, target_indices) ==
    [k \in 1..(Len(source_indices) * Len(target_indices)) |->
        <<source_indices[((k - 1) \div Len(target_indices)) + 1],
          target_indices[((k - 1) % Len(target_indices)) + 1]>>]

ids_along(g, path) == [k \in 1..Len(path) |-> g.nodes[path[k]][1].id]

\* The loop of find_path over the candidate pairs. An outcome is
\* [kind |-> "some", path |-> ids], "none", "panicked" (an addition
\* overflowed in a build with overflow checks) or "diverged".
RECURSIVE find_path_pairs(_, _, _)
find_path_pairs(g, pairs, edge_filter) ==
    IF pairs = <<>> THEN {[kind |-> "none", path |-> <<>>]}
    ELSE UNION {
           (IF o.overflowed THEN {[kind |-> "panicked", path |-> <<>>]} ELSE {})
           \cup (IF o.kind = "found" THEN {[kind |-> "some", path |-> ids_along(g, o.path)]}
                 ELSE IF o.kind = "diverged" THEN {[kind |-> "diverged", path |-> <<>>]}
                 ELSE find_path_pairs(g, Tail(pairs), edge_filter)) :
           o \in astar(g, Head(pairs)[1], Head(pairs)[2], edge_filter)}

find_path(g, source, target, edge_filter) ==
    find_path_pairs(g, candidate_pairs(find_nodes_by_name(g, source),
                                       find_nodes_by_name(g, target)), edge_filter)

\* ---- get_related ----

\* One pass of `for idx in &frontier`.
RECURSIVE expand_frontier(_, _, _, _)
expand_frontier(g, frontier, visited, next_frontier) ==
    IF frontier = <<>> THEN [visited |-> visited, next_frontier |-> next_frontier]
    ELSE IF Head(frontier) \in visited
    THEN expand_frontier(g, Tail(frontier), visited, next_frontier)
    ELSE expand_frontier(g, Tail(frontier), visited \cup {Head(frontier)},
           next_frontier \o
           SelectSeq(neighbors_directed(g, Head(frontier), "outgoing")
                       \o neighbors_directed(g, Head(frontier), "incoming"),
                     LAMBDA neighbor : neighbor \notin visited \cup {Head(frontier)}))

\* get_related without `// Add the final frontier`.
RECURSIVE visit_hops_without_final_frontier(_, _, _, _)
visit_hops_without_final_frontier(g, frontier, visited, hops) ==
    IF hops = 0 THEN visited
    ELSE visit_hops_without_final_frontier(g,
             expand_frontier(g, frontier, visited, <<>>).next_frontier,
             expand_frontier(g, frontier, visited, <<>>).visited, hops - 1)

\* `for _ in 0..max_hops`, then the final frontier is added.
RECURSIVE visit_hops(_, _, _, _)
visit_hops(g, frontier, visited, hops) ==
    IF hops = 0 THEN visited \cup Range(frontier)
    ELSE visit_hops(g, expand_frontier(g, frontier, visited, <<>>).next_frontier,
                    expand_frontier(g, frontier, visited, <<>>).visited, hops - 1)

\* get_related: the visited nodes that are no seed, in any order a HashSet
\* can give them.
get_related(g, element_name, max_hops) ==
    {ids_along(g, o) :
        o \in Orders(visit_hops(g, find_nodes_by_name(g, element_name), {}, max_hops)
                     \ Range(find_nodes_by_name(g, element_name)))}

\* ------------------------------------------------------------------------
\* BM25Index
\* ------------------------------------------------------------------------

\* BM25Index::new. avg_doc_len is kept as the fraction <<total, count>>.
NewBM25 ==
    [documents |-> EmptyMap, inverted_index |-> EmptyMap, doc_lengths |-> EmptyMap,
     avg_doc_len |-> <<0, 1>>, num_docs |-> 0]

RECURSIVE sum_values(_, _)
sum_values(m, keys) ==
    IF keys = {} THEN 0
    ELSE LET k == CHOOSE x \in keys : TRUE IN m[k] + sum_values(m, keys \ {k})

RECURSIVE push_postings(_, _, _)
push_postings(inverted_index, tokens, doc_id) ==
    IF tokens = <<>> THEN inverted_index
    ELSE push_postings(MapPush(inverted_index, Head(tokens), doc_id), Tail(tokens), doc_id)

add_document(ix, doc_id, text) ==
    LET tokens == tokenize(text)
        doc_lengths == MapInsert(ix.doc_lengths, doc_id, Len(tokens))
        num_docs == ix.num_docs + 1
    IN [documents |-> MapInsert(ix.documents, doc_id, tokens),
        inverted_index |-> push_postings(ix.inverted_index, tokens, doc_id),
        doc_lengths |-> doc_lengths,
        avg_doc_len |-> <<sum_values(doc_lengths, DOMAIN doc_lengths), num_docs>>,
        num_docs |-> num_docs]

RECURSIVE drop_postings(_, _, _)
drop_postings(inverted_index, tokens, doc_id) ==
    IF tokens = <<>> THEN inverted_index
    ELSE LET token == Head(tokens)
             left == IF token \in DOMAIN inverted_index
                     THEN SelectSeq(inverted_index[token], LAMBDA id : id # doc_id)
                     ELSE <<>>
             next == IF token \notin DOMAIN inverted_index THEN inverted_index
                     ELSE IF left = <<>> THEN MapRemove(inverted_index, token)
                     ELSE MapInsert(inverted_index, token, left)
         IN drop_postings(next, Tail(tokens), doc_id)

remove_document(ix, doc_id) ==
    IF doc_id \notin DOMAIN ix.documents THEN ix
    ELSE LET doc_lengths == MapRemove(ix.doc_lengths, doc_id)
             num_docs == IF ix.num_docs > 0 THEN ix.num_docs - 1 ELSE 0
         IN [documents |-> MapRemove(ix.documents, doc_id),
             inverted_index |-> drop_postings(ix.inverted_index, ix.documents[doc_id], doc_id),
             doc_lengths |-> doc_lengths,
             avg_doc_len |-> IF num_docs > 0
                             THEN <<sum_values(doc_lengths, DOMAIN doc_lengths), num_docs>>
                             ELSE <<0, 1>>,
             num_docs |-> num_docs]

\* The ids search can return for a query: those in the posting list of one of
\* its tokens (every posting scores above zero or not, it is in the result set
\* before truncation).
search_ids(ix, query) ==
    UNION {Range(ix.inverted_index[t]) : t \in Range(tokenize(query)) \cap DOMAIN ix.inverted_index}

\* The document frequency search uses for a token of the query: the length of
\* the token's posting list.
df(ix, token) == Len(ix.inverted_index[token])

\* The argument of ln in search's idf, (N - df + 0.5) / (df + 0.5) + 1, as the
\* fraction <<numerator, denominator>> = <<2N + 2, 2 df + 1>>.
idf(ix, token) == <<2 * ix.num_docs + 2, 2 * df(ix, token) + 1>>

\* search: the sets of ids a search for k results can return. With no more
\* candidates than k it is all of them; with more, the scores decide which k.
search(ix, query, k) ==
    {ids \in SUBSET search_ids(ix, query) :
        Cardinality(ids) = IF Cardinality(search_ids(ix, query)) <= k
                           THEN Cardinality(search_ids(ix, query)) ELSE k}

len(ix) == ix.num_docs

\* The text indexed for an element.
document_text(elem) ==
    elem.name \o " " \o elem.code \o " " \o (IF elem.docstring = None THEN "" ELSE elem.docstring[1])

RECURSIVE add_documents(_, _)
add_documents(ix, elements) ==
    IF elements = <<>> THEN ix
    ELSE add_documents(add_document(ix, Head(elements).id, document_text(Head(elements))),
                       Tail(elements))

RECURSIVE remove_documents(_, _)
remove_documents(ix, ids) ==
    IF ids = <<>> THEN ix
    ELSE remove_documents(remove_document(ix, Head(ids)), Tail(ids))


\* ------------------------------------------------------------------------
\* State
\* ------------------------------------------------------------------------

VARIABLES
    graph,          \* RepoHandle.graph (of the library caller, or of the shared handle)
    bm25,           \* RepoHandle.bm25
    api_pc,         \* library caller: "new" | "ready" | "panicked" | "asked"
    pre_graph,      \* history: the graph (or index) before the last library call
    last_call,      \* history: the last library call
    given,          \* history: file_path -> the elements last given for it
    calls_made,     \* history: the number of update_file / remove_file calls
    answer,         \* library caller: what the last query returned
    fs,             \* the files under the repository root: path -> Some(text)
    fs_ops,         \* history: the number of changes made to the files
    events,         \* FileWatcher.receiver: the queued WatchEvents
    handle_some,    \* whether the shared Option<RepoHandle> is Some
    built,          \* the indexing task's result while it awaits the write lock
    index_pc,       \* indexing task: "idle" | "running" | "publish" | "done" | "aborted"
    index_result,   \* what spawn_blocking gave: "" | "some" | "none" | "panicked"
    watcher_pc,     \* watcher task, see start_file_watcher below
    removed_files,  \* the tick's removed_files
    removed_done,   \* how many entries of removed_files the tick has processed
    changed_files,  \* the tick's changed_files
    indexed,        \* the tick's processed changed paths -> what index_single_file gave
    cur,            \* the changed path the tick is working on
    old_ids,        \* history: the ids whose BM25 documents the tick has removed
    reader_pc,      \* a reader: "idle" | "tool" | "rpc" (holding the shared lock)
    rpc_open,       \* whether an rlm_analyze RPC session has been opened
    last_response,  \* history: the last response a reader was given
    rpc             \* the graph RPC server of rlm_analyze and its connections

lib_vars == <<api_pc, pre_graph, last_call, given, calls_made, answer>>

sys_vars == <<fs, fs_ops, events, handle_some, built, index_pc, index_result,
              watcher_pc, removed_files, removed_done, changed_files, indexed, cur,
              old_ids, reader_pc, rpc_open, last_response, rpc>>

vars == <<graph, bm25, lib_vars, sys_vars>>

\* The repositories a build starts from: any of the source files, each with
\* any of the texts.
Repos ==
    UNION {{f \in [D -> {Some(t) : t \in Texts}] : \A p \in D : f[p][1] \in TextsOf(p)} :
           D \in SUBSET SourceFiles}

elements_of_file(elements, file_path) == SelectSeq(elements, LAMBDA e : e.file_path = file_path)

NoCall == [op |-> "new", file_path |-> "", new_elements |-> <<>>]

\* No rlm_analyze invocation has started: no token, no acceptor task, no
\* connection.
NoRpc == [invocations |-> 0, running |-> FALSE, token |-> "", minted |-> <<>>,
          task |-> "none", conns |-> <<>>, hand |-> None]

\* No library caller, and no session: the parts of the state a specification
\* does not use.
LibraryUnused ==
    /\ api_pc = "new"
    /\ pre_graph = NewGraph
    /\ last_call = NoCall
    /\ given = EmptyMap
    /\ calls_made = 0
    /\ answer = None

SessionUnused ==
    /\ fs = EmptyMap
    /\ fs_ops = 0
    /\ events = <<>>
    /\ handle_some = FALSE
    /\ built = None
    /\ index_pc = "idle"
    /\ index_result = ""
    /\ watcher_pc = "idle"
    /\ removed_files = <<>>
    /\ removed_done = 0
    /\ changed_files = {}
    /\ indexed = EmptyMap
    /\ cur = ""
    /\ old_ids = {}
    /\ reader_pc = "idle"
    /\ rpc_open = FALSE
    /\ last_response = ""
    /\ rpc = NoRpc

\* ------------------------------------------------------------------------
\* The graph as a library: build_from_elements, update_file, remove_file
\* ------------------------------------------------------------------------

Init ==
    /\ graph = NewGraph
    /\ bm25 = NewBM25
    /\ LibraryUnused
    /\ SessionUnused

BuildFromElements ==
    /\ api_pc = "new"
    /\ \E fs0 \in Repos, order \in Orders(SourceFiles) :
        \E elements \in {walk_and_index(fs0, RepoRoot, order)} :
        \E r \in {build_from_elements(graph, elements, RepoRoot, order)} :
           /\ graph' = r.graph
           /\ api_pc' = IF r.completed THEN "ready" ELSE "panicked"
           /\ last_call' = [op |-> "build_from_elements", file_path |-> "",
                            new_elements |-> elements]
           /\ given' = [p \in DOMAIN fs0 |-> elements_of_file(elements, p)]
    /\ pre_graph' = graph
    /\ UNCHANGED <<bm25, calls_made, answer, sys_vars>>

UpdateFile ==
    /\ api_pc = "ready"
    /\ calls_made < MaxCalls
    /\ calls_made' = calls_made + 1
    /\ \E p \in LibraryFiles, order \in Orders(LibraryFiles) : \E t \in TextsOf(p) :
        \E new_elements \in {index_single_file((p :> Some(t)), p, RepoRoot)[1]} :
        \E r \in {update_file(graph, p, new_elements, RepoRoot, order)} :
           /\ graph' = r.graph
           /\ api_pc' = IF r.completed THEN "ready" ELSE "panicked"
           /\ last_call' = [op |-> "update_file", file_path |-> p,
                            new_elements |-> new_elements]
           /\ given' = MapInsert(given, p, new_elements)
    /\ pre_graph' = graph
    /\ UNCHANGED <<bm25, answer, sys_vars>>

RemoveFile ==
    /\ api_pc = "ready"
    /\ calls_made < MaxCalls
    /\ calls_made' = calls_made + 1
    /\ \E p \in LibraryFiles :
        /\ graph' = remove_file(graph, p)
        /\ last_call' = [op |-> "remove_file", file_path |-> p, new_elements |-> <<>>]
        /\ given' = MapRemove(given, p)
    /\ pre_graph' = graph
    /\ UNCHANGED <<bm25, api_pc, answer, sys_vars>>

Next == BuildFromElements \/ UpdateFile \/ RemoveFile

Spec == Init /\ [][Next]_vars

\* ------------------------------------------------------------------------
\* The graph as a library: add_node, add_edge and the queries over them
\* ------------------------------------------------------------------------

MaxQueryEdges == 3
MaxHops == 2

\* The nodes a caller adds, in this order: two nodes named s, two named t.
QueryNodes ==
    <<[id |-> "s1", name |-> "s"], [id |-> "m", name |-> "m"],
      [id |-> "t1", name |-> "t"], [id |-> "s2", name |-> "s"],
      [id |-> "t2", name |-> "t"]>>

\* The endpoints of the edges a caller adds, as positions in QueryNodes.
QueryEdgeEnds ==
    {<<2, 3>>, <<4, 3>>, <<4, 2>>, <<1, 5>>, <<5, 4>>}

QueryEdgeKinds == {"calls", "imports"}
QueryNames == {"s", "m", "t"}

AddNode ==
    /\ api_pc = "new"
    /\ Len(graph.nodes) < Len(QueryNodes)
    /\ \E node \in {QueryNodes[Len(graph.nodes) + 1]} :
        /\ graph' = add_node(graph, [id |-> node.id, kind |-> "function",
                                     name |-> node.name, file_path |-> FileA])
        /\ last_call' = [op |-> "add_node", file_path |-> FileA, new_elements |-> <<>>]
    /\ pre_graph' = graph
    /\ UNCHANGED <<bm25, api_pc, given, calls_made, answer, sys_vars>>

AddEdge ==
    /\ api_pc = "new"
    /\ Len(graph.edges) < MaxQueryEdges
    /\ \E ends \in QueryEdgeEnds, kind \in QueryEdgeKinds :
        /\ ends[1] <= Len(graph.nodes) /\ ends[2] <= Len(graph.nodes)
        /\ graph' = graph_add_edge(graph, ends[1], ends[2], kind)
        /\ last_call' = [op |-> "add_edge", file_path |-> "", new_elements |-> <<>>]
    /\ pre_graph' = graph
    /\ UNCHANGED <<bm25, api_pc, given, calls_made, answer, sys_vars>>

FindPath ==
    /\ api_pc = "new"
    /\ \E source \in QueryNames, target \in QueryNames,
          edge_filter \in {None, Some("calls")} :
        \E outcome \in find_path(graph, source, target, edge_filter) :
           /\ answer' = Some(outcome)
           /\ api_pc' = IF outcome.kind \in {"some", "none"} THEN "asked" ELSE "panicked"
           /\ last_call' = [op |-> "find_path", source |-> source, target |-> target,
                            edge_filter |-> edge_filter]
    /\ UNCHANGED <<graph, bm25, pre_graph, given, calls_made, sys_vars>>

GetRelated ==
    /\ api_pc = "new"
    /\ \E element_name \in QueryNames, max_hops \in 0..MaxHops :
        \E related \in get_related(graph, element_name, max_hops) :
           /\ answer' = Some(related)
           /\ last_call' = [op |-> "get_related", element_name |-> element_name,
                            max_hops |-> max_hops]
    /\ api_pc' = "asked"
    /\ UNCHANGED <<graph, bm25, pre_graph, given, calls_made, sys_vars>>

QueryNext == AddNode \/ AddEdge \/ FindPath \/ GetRelated

QuerySpec == Init /\ [][QueryNext]_vars

\* ------------------------------------------------------------------------
\* The BM25 index as a library: add_document, remove_document, search
\* ------------------------------------------------------------------------

MaxIndexCalls == 3

DocIds == {"d1", "d2"}
DocTexts == {"X y", "z", "x z", "z z"}
Queries == {"x", "y", "Z"}
SearchK == {1, 10}

\* `given` is the text last added under each id that has not been removed
\* since.
AddDocument ==
    /\ calls_made < MaxIndexCalls
    /\ calls_made' = calls_made + 1
    /\ \E doc_id \in DocIds, text \in DocTexts :
        /\ bm25' = add_document(bm25, doc_id, text)
        /\ given' = MapInsert(given, doc_id, text)
        /\ last_call' = [op |-> "add_document", doc_id |-> doc_id, text |-> text]
    /\ pre_graph' = bm25
    /\ answer' = None
    /\ UNCHANGED <<graph, api_pc, sys_vars>>

RemoveDocument ==
    /\ calls_made < MaxIndexCalls
    /\ calls_made' = calls_made + 1
    /\ \E doc_id \in DocIds :
        /\ bm25' = remove_document(bm25, doc_id)
        /\ given' = MapRemove(given, doc_id)
        /\ last_call' = [op |-> "remove_document", doc_id |-> doc_id, text |-> ""]
    /\ pre_graph' = bm25
    /\ answer' = None
    /\ UNCHANGED <<graph, api_pc, sys_vars>>

Search ==
    /\ answer = None
    /\ \E query \in Queries, k \in SearchK :
        \E ids \in search(bm25, query, k) :
           answer' = Some([query |-> query, k |-> k, ids |-> ids,
                           idf |-> [t \in Range(tokenize(query)) \cap DOMAIN bm25.inverted_index
                                       |-> idf(bm25, t)]])
    /\ UNCHANGED <<graph, bm25, api_pc, pre_graph, last_call, given, calls_made, sys_vars>>

IndexNext == AddDocument \/ RemoveDocument \/ Search

IndexSpec == Init /\ [][IndexNext]_vars

\* ------------------------------------------------------------------------
\* The global index as a library: build, remove_file and the lookups
\* ------------------------------------------------------------------------

\* The files whose elements a caller gives to build; a.py and a.rs have the
\* same module path.
GlobalFiles == {FileA, FileB, FileRs, FileARs}

GlobalBuild ==
    /\ calls_made < MaxCalls
    /\ calls_made' = calls_made + 1
    /\ \E p \in GlobalFiles : \E t \in TextsOf(p) :
        \E elements \in {index_single_file((p :> Some(t)), p, RepoRoot)[1]} :
           /\ graph' = global_index_build(graph, elements, RepoRoot)
           /\ last_call' = [op |-> "global_index.build", file_path |-> p,
                            new_elements |-> elements]
    /\ pre_graph' = graph
    /\ UNCHANGED <<bm25, api_pc, given, answer, sys_vars>>

GlobalRemoveFile ==
    /\ calls_made < MaxCalls
    /\ calls_made' = calls_made + 1
    /\ \E p \in GlobalFiles :
        /\ graph' = global_index_remove_file(graph, p)
        /\ last_call' = [op |-> "global_index.remove_file", file_path |-> p,
                         new_elements |-> <<>>]
    /\ pre_graph' = graph
    /\ UNCHANGED <<bm25, api_pc, given, answer, sys_vars>>

GlobalNext == GlobalBuild \/ GlobalRemoveFile

GlobalSpec == Init /\ [][GlobalNext]_vars

\* ------------------------------------------------------------------------
\* Call resolution through imports: a.py imports bar from module b and calls
\* it; b.py and one other file define bar
\* ------------------------------------------------------------------------

FileC == "/r/c.py"
FileBb == "/r/bb.py"
\* The other file that defines bar: its module path is c or bb.
OtherFiles == {FileC, FileBb}

\* The text of each file of these repositories.
ImportRepoText(path) == IF path = FileA THEN SrcImport ELSE SrcBar

BuildImportRepo ==
    /\ api_pc = "new"
    /\ \E other \in OtherFiles : \E order \in Orders({FileA, FileB, other}) :
        \E elements \in {walk_and_index([p \in {FileA, FileB, other} |-> Some(ImportRepoText(p))],
                                        RepoRoot, order)} :
        \E r \in {build_from_elements(graph, elements, RepoRoot, order)} :
           /\ graph' = r.graph
           /\ api_pc' = IF r.completed THEN "ready" ELSE "panicked"
           /\ last_call' = [op |-> "build_from_elements", file_path |-> "",
                            new_elements |-> elements]
           /\ given' = [p \in {FileA, FileB, other} |-> elements_of_file(elements, p)]
    /\ pre_graph' = graph
    /\ UNCHANGED <<bm25, calls_made, answer, sys_vars>>

\* update_file of one of the repository's files with its unchanged text.
ReindexFile ==
    /\ api_pc = "ready"
    /\ calls_made < MaxCalls
    /\ calls_made' = calls_made + 1
    /\ \E p \in DOMAIN given : \E order \in Orders(DOMAIN given) :
        \E new_elements \in {index_single_file((p :> Some(ImportRepoText(p))), p, RepoRoot)[1]} :
        \E r \in {update_file(graph, p, new_elements, RepoRoot, order)} :
           /\ graph' = r.graph
           /\ api_pc' = IF r.completed THEN "ready" ELSE "panicked"
           /\ last_call' = [op |-> "update_file", file_path |-> p,
                            new_elements |-> new_elements]
           /\ given' = MapInsert(given, p, new_elements)
    /\ pre_graph' = graph
    /\ UNCHANGED <<bm25, answer, sys_vars>>

ImportNext == BuildImportRepo \/ ReindexFile

ImportSpec == Init /\ [][ImportNext]_vars


\* ------------------------------------------------------------------------
\* The store: save_elements, save_bm25, load_elements, load_bm25
\* ------------------------------------------------------------------------

\* A file is a sequence of words; a word stands for the bytes of one u32 or
\* of one string or payload item. u32_words[n + 1] is the little-endian
\* encoding of n.
u32_words == <<"00", "01", "02", "03">>

FORMAT_VERSION == 1

to_le_bytes(n) == u32_words[n + 1]

\* u32::from_le_bytes, and bincode's reading of a u32: absent when the word
\* is not the encoding of a number.
from_le_bytes(word) ==
    first(SelectSeq(<<0, 1, 2, 3>>, LAMBDA n : u32_words[n + 1] = word))

StoreHeader(version, kind) == [version |-> version, kind |-> kind]

\* bincode::serialize of a StoreHeader, and of a payload: the item count,
\* then the items.
serialize_header(header) == <<to_le_bytes(header.version), header.kind>>

serialize_payload(items) == <<to_le_bytes(Len(items))>> \o items

\* bincode::deserialize of a StoreHeader.
deserialize_header(bytes) ==
    IF Len(bytes) >= 2 /\ from_le_bytes(bytes[1]) # None
    THEN Some(StoreHeader(from_le_bytes(bytes[1])[1], bytes[2]))
    ELSE None

\* bincode::deserialize of a payload whose items begin with the letter tag:
\* absent when the count is unreadable, when items are missing, or when an
\* item is not of the type asked for.
deserialize_payload(bytes, tag) ==
    IF /\ bytes # <<>>
       /\ from_le_bytes(bytes[1]) # None
       /\ Len(bytes) >= 1 + from_le_bytes(bytes[1])[1]
       /\ \A i \in 2..(1 + from_le_bytes(bytes[1])[1]) : starts_with(bytes[i], tag)
    THEN Some(SubSeq(bytes, 2, 1 + from_le_bytes(bytes[1])[1]))
    ELSE None

\* The bytes a save writes: header length, header, payload.
store_output(kind, items) ==
    <<to_le_bytes(Len(serialize_header(StoreHeader(FORMAT_VERSION, kind))))>>
        \o serialize_header(StoreHeader(FORMAT_VERSION, kind))
        \o serialize_payload(items)

\* Path::with_extension: the extension of the file name, when it has one, is
\* replaced, and otherwise ext is appended.
with_extension(path, ext) ==
    IF extension(path) = None THEN path \o "." \o ext
    ELSE SubSeq(path, 1, Len(path) - Len(extension(path)[1])) \o ext

\* fs::read.
read(disk, path) == IF path \in DOMAIN disk THEN Some(disk[path]) ELSE None

Err(error) == [ok |-> FALSE, error |-> error]
Ok(value) == [ok |-> TRUE, value |-> value]

load_bm25(disk, path) ==
    IF read(disk, path) = None THEN Err("io")
    ELSE IF Len(disk[path]) < 1 THEN Err("file too small")
    ELSE IF Len(disk[path]) < 1 + from_le_bytes(disk[path][1])[1] THEN Err("truncated header")
    ELSE IF deserialize_header(SubSeq(disk[path], 2, 1 + from_le_bytes(disk[path][1])[1])) = None
         THEN Err("invalid header")
    ELSE IF deserialize_header(SubSeq(disk[path], 2, 1 + from_le_bytes(disk[path][1])[1]))[1].version
              # FORMAT_VERSION
         THEN Err("unsupported format version")
    ELSE IF deserialize_payload(SubSeq(disk[path], 2 + from_le_bytes(disk[path][1])[1],
                                       Len(disk[path])), "d") = None
         THEN Err("invalid payload")
    ELSE Ok(deserialize_payload(SubSeq(disk[path], 2 + from_le_bytes(disk[path][1])[1],
                                       Len(disk[path])), "d")[1])

load_elements(disk, path) ==
    IF read(disk, path) = None THEN Err("io")
    ELSE IF Len(disk[path]) < 1 THEN Err("file too small")
    ELSE IF Len(disk[path]) < 1 + from_le_bytes(disk[path][1])[1] THEN Err("truncated header")
    ELSE IF deserialize_header(SubSeq(disk[path], 2, 1 + from_le_bytes(disk[path][1])[1])) = None
         THEN Err("invalid header")
    ELSE IF deserialize_payload(SubSeq(disk[path], 2 + from_le_bytes(disk[path][1])[1],
                                       Len(disk[path])), "e") = None
         THEN Err("invalid payload")
    ELSE Ok(deserialize_payload(SubSeq(disk[path], 2 + from_le_bytes(disk[path][1])[1],
                                       Len(disk[path])), "e")[1])

\* How many saves a run makes.
MaxSaves == 2

ElementsBin == "/s/elements.bin"
Bm25Bin == "/s/bm25.bin"
SnapTmp == "/s/snap.tmp"
\* The destinations given to each save, and the payloads.
SavePathsOf(kind) == IF kind = "elements" THEN {ElementsBin, SnapTmp} ELSE {Bm25Bin}
PayloadsOf(kind) == IF kind = "elements" THEN {<<"e1">>, <<"e2", "e1">>} ELSE {<<>>, <<"d1">>}

\* A file a build with another FORMAT_VERSION wrote.
other_version_file(kind, items) ==
    <<to_le_bytes(2)>> \o serialize_header(StoreHeader(2, kind)) \o serialize_payload(items)

\* The store directory is empty, or holds the two files of another version.
StoreInit ==
    /\ graph = NewGraph
    /\ bm25 = NewBM25
    /\ LibraryUnused
    /\ fs \in {EmptyMap,
               (ElementsBin :> other_version_file("elements", <<"e1">>))
                 @@ (Bm25Bin :> other_version_file("bm25", <<"d1">>))}
    /\ fs_ops = 0 /\ events = <<>> /\ handle_some = FALSE /\ built = None
    /\ index_pc = "idle" /\ index_result = "" /\ watcher_pc = "idle"
    /\ removed_files = <<>> /\ removed_done = 0 /\ changed_files = {}
    /\ indexed = EmptyMap /\ cur = "" /\ old_ids = {} /\ reader_pc = "idle"
    /\ rpc_open = FALSE /\ last_response = "" /\ rpc = NoRpc

store_unused == <<graph, bm25, pre_graph, given, fs_ops, events, handle_some, built,
                  index_pc, index_result, watcher_pc, removed_files, removed_done,
                  changed_files, indexed, cur, old_ids, reader_pc, rpc_open, last_response,
                  rpc>>

\* save_elements / save_bm25 up to the call of fs::write: the output bytes
\* and the temporary path are computed.
SaveBegin ==
    /\ api_pc = "new"
    /\ calls_made < MaxSaves
    /\ calls_made' = calls_made + 1
    /\ \E kind \in {"elements", "bm25"} : \E path \in SavePathsOf(kind), items \in PayloadsOf(kind) :
          last_call' = [op |-> "save_" \o kind, path |-> path,
                        temp_path |-> with_extension(path, "tmp"),
                        output |-> store_output(kind, items),
                        previous |-> read(fs, path)]
    /\ api_pc' = "create"
    /\ UNCHANGED <<fs, answer, store_unused>>

\* fs::write opens the temporary file, creating or truncating it.
SaveCreate ==
    /\ api_pc = "create"
    /\ fs' = MapInsert(fs, last_call.temp_path, <<>>)
    /\ api_pc' = "write"
    /\ UNCHANGED <<last_call, calls_made, answer, store_unused>>

\* fs::write writes the next part of the output.
SaveWrite ==
    /\ api_pc = "write"
    /\ Len(fs[last_call.temp_path]) < Len(last_call.output)
    /\ fs' = MapInsert(fs, last_call.temp_path,
                       SubSeq(last_call.output, 1, Len(fs[last_call.temp_path]) + 1))
    /\ UNCHANGED <<api_pc, last_call, calls_made, answer, store_unused>>

\* fs::rename of the temporary file over the destination; the save returns Ok.
SaveRename ==
    /\ api_pc = "write"
    /\ fs[last_call.temp_path] = last_call.output
    /\ fs' = MapInsert(MapRemove(fs, last_call.temp_path), last_call.path,
                       fs[last_call.temp_path])
    /\ api_pc' = "new"
    /\ UNCHANGED <<last_call, calls_made, answer, store_unused>>

\* fs::write or fs::rename fails (or the process dies) and the save ends with
\* the files as they are.
SaveFail ==
    /\ api_pc \in {"create", "write"}
    /\ api_pc' = "new"
    /\ UNCHANGED <<fs, last_call, calls_made, answer, store_unused>>

\* load_elements or load_bm25 of a file of the store directory, called by this
\* or another process at any moment; `answer` keeps the bytes that were in the
\* file and the result.
Load ==
    /\ answer = None
    /\ \E path \in {ElementsBin, Bm25Bin, SnapTmp} :
          \/ answer' = Some([op |-> "load_elements", path |-> path, data |-> read(fs, path),
                             result |-> load_elements(fs, path)])
          \/ answer' = Some([op |-> "load_bm25", path |-> path, data |-> read(fs, path),
                             result |-> load_bm25(fs, path)])
    /\ UNCHANGED <<fs, api_pc, last_call, calls_made, store_unused>>

StoreNext == SaveBegin \/ SaveCreate \/ SaveWrite \/ SaveRename \/ SaveFail \/ Load

StoreSpec == StoreInit /\ [][StoreNext]_vars

\* ------------------------------------------------------------------------
\* The session: start_code_graph_indexing, start_file_watcher and the
\* readers of the shared handle
\* ------------------------------------------------------------------------

\* How many times the files under the repository root change in a run.
MaxFsOps == 2

\* The texts each source file can hold during a session.
SessionTextsOf(path) == IF path = FileA THEN {SrcFoo, SrcFooTwice, SrcClass} ELSE {SrcBar}

SessionRepos == {f \in Repos : \A p \in DOMAIN f : f[p][1] \in SessionTextsOf(p)}

\* A panic either unwinds the panicking task ("panicked") or, in a build with
\* panic = "abort", ends the process ("aborted").
ProcessAlive == index_pc # "aborted" /\ watcher_pc # "aborted"

\* The watcher task holds the write guard from `repo_handle.write().await` to
\* the end of the loop body.
WriterHeld == watcher_pc \in {"locked", "indexed", "bm25_removed", "updated"}

\* tokio's RwLock serves its waiters in order: a reader that arrives behind a
\* waiting writer waits for it.
ReadLockFree == ~WriterHeld /\ watcher_pc # "lock_wait" /\ index_pc # "publish"

WriteLockFree == ~WriterHeld /\ reader_pc = "idle"

\* The notify watcher exists from FileWatcher::new until the task ends.
Watching == watcher_pc \in {"sleep", "lock_wait", "locked", "indexed", "bm25_removed", "updated"}

\* A file's update has begun (its BM25 documents are removed) and has not ended
\* (the documents of its new elements are not added).
PartlyApplied == watcher_pc \in {"bm25_removed", "updated", "panicked"}

SessionInit ==
    /\ graph = NewGraph
    /\ bm25 = NewBM25
    /\ LibraryUnused
    /\ fs \in SessionRepos
    /\ fs_ops = 0
    /\ events = <<>>
    /\ handle_some = FALSE
    /\ built = None
    /\ index_pc = "running"
    /\ index_result = ""
    /\ watcher_pc = "poll"
    /\ removed_files = <<>>
    /\ removed_done = 0
    /\ changed_files = {}
    /\ indexed = EmptyMap
    /\ cur = ""
    /\ old_ids = {}
    /\ reader_pc = "idle"
    /\ rpc_open = FALSE
    /\ last_response = ""
    /\ rpc = NoRpc

tick_vars == <<removed_files, removed_done, changed_files, indexed, cur, old_ids>>
reader_vars == <<reader_pc, rpc_open, last_response>>
index_vars == <<built, index_pc, index_result>>
fs_vars == <<fs, fs_ops>>

\* ---- the indexing task ----

\* The spawn_blocking closure: walk, build the graph, fill the BM25 index.
IndexBuild ==
    /\ ProcessAlive
    /\ index_pc = "running"
    /\ \E order \in Orders(SourceFiles), abort \in BOOLEAN :
        \E elements \in {walk_and_index(fs, RepoRoot, order)} :
        \E r \in {build_from_elements(NewGraph, elements, RepoRoot, order)} :
           IF elements = <<>>
           THEN /\ index_result' = "none"
                /\ index_pc' = "done"
                /\ built' = None
           ELSE IF ~r.completed
           THEN /\ index_result' = "panicked"
                /\ index_pc' = IF abort THEN "aborted" ELSE "done"
                /\ built' = None
           ELSE /\ index_result' = "some"
                /\ index_pc' = "publish"
                /\ built' = Some([graph |-> r.graph,
                                  bm25 |-> add_documents(NewBM25, elements)])
    /\ UNCHANGED <<graph, bm25, lib_vars, rpc, fs_vars, events, handle_some, watcher_pc,
                   tick_vars, reader_vars>>

\* The Ok(Some(handle)) arm: take the write lock and populate the handle.
IndexPublish ==
    /\ ProcessAlive
    /\ index_pc = "publish"
    /\ WriteLockFree
    /\ graph' = built[1].graph
    /\ bm25' = built[1].bm25
    /\ handle_some' = TRUE
    /\ built' = None
    /\ index_pc' = "done"
    /\ UNCHANGED <<lib_vars, rpc, fs_vars, events, index_result, watcher_pc, tick_vars,
                   reader_vars>>

\* ---- the watcher task ----

\* The wait loop's test, `repo_handle.read().await.is_some()`.
initial_index_completed(handle_is_some) == handle_is_some

\* One round of the wait loop; with the handle still None it sleeps 500 ms and
\* tries again.
WatcherPoll ==
    /\ ProcessAlive
    /\ watcher_pc = "poll"
    /\ ReadLockFree
    /\ watcher_pc' = IF initial_index_completed(handle_some) THEN "open" ELSE "poll"
    /\ UNCHANGED <<graph, bm25, lib_vars, rpc, fs_vars, events, handle_some, index_vars,
                   tick_vars, reader_vars>>

\* FileWatcher::new: the task returns when the watcher cannot be created.
WatcherOpen ==
    /\ ProcessAlive
    /\ watcher_pc = "open"
    /\ \E ok \in BOOLEAN : watcher_pc' = IF ok THEN "sleep" ELSE "stopped"
    /\ UNCHANGED <<graph, bm25, lib_vars, rpc, fs_vars, events, handle_some, index_vars,
                   tick_vars, reader_vars>>

\* The paths of the drained Modified and Created events that have a supported
\* extension.
drain_changed(evs) ==
    {evs[i].path : i \in {k \in 1..Len(evs) : /\ evs[k].kind \in {"modified", "created"}
                                             /\ from_extension(evs[k].path) # None}}

\* The paths of the drained Removed events, in queue order.
drain_removed(evs) ==
    LET rem == SelectSeq(evs, LAMBDA e : e.kind = "removed")
    IN [i \in 1..Len(rem) |-> rem[i].path]

\* After the 200 ms sleep: drain the queue; an idle tick (nothing queued)
\* changes nothing.
WatcherTick ==
    /\ ProcessAlive
    /\ watcher_pc = "sleep"
    /\ events # <<>>
    /\ events' = <<>>
    /\ IF drain_changed(events) = {} /\ drain_removed(events) = <<>>
       THEN UNCHANGED <<watcher_pc, tick_vars>>
       ELSE /\ changed_files' = drain_changed(events)
            /\ removed_files' = drain_removed(events)
            /\ watcher_pc' = "lock_wait"
            /\ UNCHANGED <<removed_done, indexed, cur, old_ids>>
    /\ UNCHANGED <<graph, bm25, lib_vars, rpc, fs_vars, handle_some, index_vars, reader_vars>>

\* `repo_handle.write().await` returns.
WatcherLock ==
    /\ ProcessAlive
    /\ watcher_pc = "lock_wait"
    /\ WriteLockFree
    /\ watcher_pc' = "locked"
    /\ UNCHANGED <<graph, bm25, lib_vars, rpc, fs_vars, events, handle_some, index_vars,
                   tick_vars, reader_vars>>

\* What the body of the tick does next: the loop over removed_files comes
\* first, the loop over changed_files second.
next_in_tick_changes_first(removed, done, changed, seen) ==
    IF DOMAIN seen # changed THEN "change"
    ELSE IF done < Len(removed) THEN "remove"
    ELSE "end"

next_in_tick(removed, done, changed, seen) ==
    IF done < Len(removed) THEN "remove"
    ELSE IF DOMAIN seen # changed THEN "change"
    ELSE "end"

\* The BM25 removal of a file's elements read after the graph has dropped them.
remove_bm25_entries_after_graph(g, ix, path) ==
    remove_documents(ix, element_ids_for_file(remove_file(g, path), path))

\* `for id in handle.graph.element_ids_for_file(path) { handle.bm25.remove_document(&id) }`
remove_bm25_entries(g, ix, path) ==
    remove_documents(ix, element_ids_for_file(g, path))

\* One round of `for path in &removed_files`.
WatcherRemoveFile ==
    /\ ProcessAlive
    /\ watcher_pc = "locked"
    /\ next_in_tick(removed_files, removed_done, changed_files, indexed) = "remove"
    /\ LET path == removed_files[removed_done + 1]
       IN /\ bm25' = remove_bm25_entries(graph, bm25, path)
          /\ graph' = remove_file(graph, path)
          /\ old_ids' = old_ids \cup Range(element_ids_for_file(graph, path))
    /\ removed_done' = removed_done + 1
    /\ UNCHANGED <<lib_vars, rpc, fs_vars, events, handle_some, index_vars, watcher_pc,
                   removed_files, changed_files, indexed, cur, reader_vars>>

\* One round of `for path in &changed_files`, up to index_single_file: a file
\* that cannot be read or parsed is skipped.
WatcherIndexFile ==
    /\ ProcessAlive
    /\ watcher_pc = "locked"
    /\ next_in_tick(removed_files, removed_done, changed_files, indexed) = "change"
    /\ \E path \in changed_files \ DOMAIN indexed :
        \E got \in {index_single_file(fs, path, RepoRoot)} :
           /\ indexed' = MapInsert(indexed, path, got)
           /\ cur' = IF got = None THEN "" ELSE path
           /\ watcher_pc' = IF got = None THEN "locked" ELSE "indexed"
    /\ UNCHANGED <<graph, bm25, lib_vars, rpc, fs_vars, events, handle_some, index_vars,
                   removed_files, removed_done, changed_files, old_ids, reader_vars>>

\* "Remove old BM25 entries".
WatcherBm25Remove ==
    /\ ProcessAlive
    /\ watcher_pc = "indexed"
    /\ bm25' = remove_bm25_entries(graph, bm25, cur)
    /\ old_ids' = old_ids \cup Range(element_ids_for_file(graph, cur))
    /\ watcher_pc' = "bm25_removed"
    /\ UNCHANGED <<graph, lib_vars, rpc, fs_vars, events, handle_some, index_vars,
                   removed_files, removed_done, changed_files, indexed, cur, reader_vars>>

\* "Update graph (removes old, adds new)". A panic inside update_file drops the
\* write guard while unwinding and ends the task.
WatcherUpdateFile ==
    /\ ProcessAlive
    /\ watcher_pc = "bm25_removed"
    /\ \E order \in Orders(SourceFiles), abort \in BOOLEAN :
        \E r \in {update_file(graph, cur, indexed[cur][1], RepoRoot, order)} :
           /\ graph' = r.graph
           /\ watcher_pc' = IF r.completed THEN "updated"
                            ELSE IF abort THEN "aborted" ELSE "panicked"
    /\ UNCHANGED <<bm25, lib_vars, rpc, fs_vars, events, handle_some, index_vars,
                   tick_vars, reader_vars>>

\* "Add new BM25 entries".
WatcherBm25Add ==
    /\ ProcessAlive
    /\ watcher_pc = "updated"
    /\ bm25' = add_documents(bm25, indexed[cur][1])
    /\ watcher_pc' = "locked"
    /\ cur' = ""
    /\ UNCHANGED <<graph, lib_vars, rpc, fs_vars, events, handle_some, index_vars,
                   removed_files, removed_done, changed_files, indexed, old_ids,
                   reader_vars>>

\* The end of the loop body: the guard and the tick's two collections drop.
WatcherRelease ==
    /\ ProcessAlive
    /\ watcher_pc = "locked"
    /\ next_in_tick(removed_files, removed_done, changed_files, indexed) = "end"
    /\ watcher_pc' = "sleep"
    /\ removed_files' = <<>>
    /\ removed_done' = 0
    /\ changed_files' = {}
    /\ indexed' = EmptyMap
    /\ cur' = ""
    /\ old_ids' = {}
    /\ UNCHANGED <<graph, bm25, lib_vars, rpc, fs_vars, events, handle_some, index_vars,
                   reader_vars>>

\* ---- the files, and the notify callback of FileWatcher::new ----

\* The event the callback sends for a change, when a watcher exists.
notify(evs, kind, path) ==
    IF Watching THEN Append(evs, [kind |-> kind, path |-> path]) ELSE evs

FsWrite ==
    /\ fs_ops < MaxFsOps
    /\ \E p \in SourceFiles : \E t \in SessionTextsOf(p) :
        /\ read_to_string(fs, p) # Some(t)
        /\ fs' = MapInsert(fs, p, Some(t))
        /\ events' = notify(events, IF p \in DOMAIN fs THEN "modified" ELSE "created", p)
    /\ fs_ops' = fs_ops + 1
    /\ UNCHANGED <<graph, bm25, lib_vars, rpc, handle_some, index_vars, watcher_pc,
                   tick_vars, reader_vars>>

FsRemove ==
    /\ fs_ops < MaxFsOps
    /\ \E p \in DOMAIN fs :
        /\ fs' = MapRemove(fs, p)
        /\ events' = notify(events, "removed", p)
    /\ fs_ops' = fs_ops + 1
    /\ UNCHANGED <<graph, bm25, lib_vars, rpc, handle_some, index_vars, watcher_pc,
                   tick_vars, reader_vars>>

\* A file with an unsupported extension changes under the watched root.
FsWriteOther ==
    /\ fs_ops < MaxFsOps
    /\ Watching
    /\ events' = notify(events, "modified", FileTxt)
    /\ fs_ops' = fs_ops + 1
    /\ UNCHANGED <<graph, bm25, lib_vars, rpc, fs, handle_some, index_vars, watcher_pc,
                   tick_vars, reader_vars>>

\* ---- the readers ----

\* CodeGraphDispatcher::dispatch without its None test.
dispatch_unchecked(handle_is_some) == "evaluate"

\* CodeGraphDispatcher::dispatch after `self.repo.read().await`: the error
\* for a handle that is None, else the tool's match arm.
dispatch(handle_is_some) == IF ~handle_is_some THEN "error" ELSE "evaluate"

\* handle_graph_rpc_client for one request line that parses.
rpc_respond(token_matches, handle_is_some) ==
    IF ~token_matches THEN "unauthorized"
    ELSE IF handle_is_some THEN "evaluate"
    ELSE "error"

\* A graph tool call: the read guard is held until the result is built.
ToolDispatch ==
    /\ ProcessAlive
    /\ reader_pc = "idle"
    /\ ReadLockFree
    /\ IF dispatch(handle_some) = "evaluate"
       THEN reader_pc' = "tool" /\ last_response' = ""
       ELSE reader_pc' = "idle" /\ last_response' = "error_not_indexed"
    /\ UNCHANGED <<graph, bm25, lib_vars, rpc, fs_vars, events, handle_some, index_vars,
                   watcher_pc, tick_vars, rpc_open>>

\* dispatch_rlm_analyze: snapshot the elements under the read lock, then bind
\* the listener and spawn the acceptor.
RlmAnalyze ==
    /\ ProcessAlive
    /\ reader_pc = "idle"
    /\ ~rpc_open
    /\ ReadLockFree
    /\ IF dispatch(handle_some) = "evaluate"
       THEN rpc_open' = TRUE /\ last_response' = ""
       ELSE rpc_open' = FALSE /\ last_response' = "error_not_indexed"
    /\ UNCHANGED <<graph, bm25, lib_vars, rpc, fs_vars, events, handle_some, index_vars,
                   watcher_pc, tick_vars, reader_pc>>

\* The external process has ended: server_task.abort().
RlmReturn ==
    /\ ProcessAlive
    /\ rpc_open
    /\ rpc_open' = FALSE
    /\ reader_pc' = IF reader_pc = "rpc" THEN "idle" ELSE reader_pc
    /\ UNCHANGED <<graph, bm25, lib_vars, rpc, fs_vars, events, handle_some, index_vars,
                   watcher_pc, tick_vars, last_response>>

\* One request line of the RPC session.
RpcRequest ==
    /\ ProcessAlive
    /\ rpc_open
    /\ reader_pc = "idle"
    /\ \E token_matches \in BOOLEAN :
        LET what == rpc_respond(token_matches, handle_some)
        IN /\ token_matches => ReadLockFree
           /\ reader_pc' = IF what = "evaluate" THEN "rpc" ELSE "idle"
           /\ last_response' = IF what = "evaluate" THEN ""
                               ELSE IF what = "unauthorized" THEN "unauthorized"
                               ELSE "error_not_indexed"
    /\ UNCHANGED <<graph, bm25, lib_vars, rpc, fs_vars, events, handle_some, index_vars,
                   watcher_pc, tick_vars, rpc_open>>

\* The query is evaluated on the graph and BM25 index and the guard dropped.
ReaderFinish ==
    /\ ProcessAlive
    /\ reader_pc \in {"tool", "rpc"}
    /\ reader_pc' = "idle"
    /\ last_response' = "ok"
    /\ UNCHANGED <<graph, bm25, lib_vars, rpc, fs_vars, events, handle_some, index_vars,
                   watcher_pc, tick_vars, rpc_open>>

Watcher ==
    \/ WatcherPoll
    \/ WatcherOpen
    \/ WatcherTick
    \/ WatcherLock
    \/ WatcherRemoveFile
    \/ WatcherIndexFile
    \/ WatcherBm25Remove
    \/ WatcherUpdateFile
    \/ WatcherBm25Add
    \/ WatcherRelease

SessionNext ==
    \/ IndexBuild
    \/ IndexPublish
    \/ Watcher
    \/ FsWrite
    \/ FsRemove
    \/ FsWriteOther
    \/ ToolDispatch
    \/ RlmAnalyze
    \/ RlmReturn
    \/ RpcRequest
    \/ ReaderFinish

SessionSpec == SessionInit /\ [][SessionNext]_vars

\* ------------------------------------------------------------------------
\* rlm_analyze and its graph RPC server: dispatch_rlm_analyze,
\* handle_graph_rpc_client, dispatch_graph_rpc_method
\* ------------------------------------------------------------------------

\* How many rlm_analyze invocations a run makes, and how many times the
\* clients connect, send a line or close.
MaxInvocations == 2
MaxClientOps == 4

\* Uuid::new_v4().to_string() of the n-th invocation: version-4 UUIDs are
\* taken not to repeat.
Uuid(n) == <<"uuid-a", "uuid-b", "uuid-c", "uuid-d">>[n]

\* A request line as the client wrote it.
Line(form, token, method, params) ==
    [form |-> form, token |-> token, method |-> method, params |-> params]

\* The lines a client sends: stats with the token of the first or of the
\* second invocation or with the first token in upper case, find_callers
\* without its symbol, an unknown method, a line that is not JSON, and a line
\* whose bytes are not UTF-8.
RequestLines ==
    {Line("json", t, "stats", {}) : t \in {Uuid(1), Uuid(2), "UUID-A"}}
    \cup {Line("json", Uuid(1), "find_callers", {"symbol"}),
          Line("json", Uuid(1), "find_callers", {}),
          Line("json", Uuid(1), "nope", {}),
          Line("not_json", "", "", {}),
          Line("not_utf8", "", "", {})}

\* AsyncBufReadExt::read_line: an error when the bytes of the line are not
\* valid UTF-8.
read_line(line) == IF line.form = "not_utf8" THEN Err("invalid utf-8") ELSE Ok(line)

\* serde_json::from_str::<GraphRpcRequest>.
parse_request(line) ==
    IF line.form = "json"
    THEN Some([token |-> line.token, method |-> line.method, params |-> line.params])
    ELSE None

dispatch_graph_rpc_method(method, params) ==
    IF method = "find_callers"
    THEN (IF "symbol" \in params THEN Ok("ids")
          ELSE Err("missing or invalid 'symbol' parameter"))
    ELSE IF method = "stats" THEN Ok("stats")
    ELSE Err("unknown graph RPC method")

GraphRpcResponse(ok, result, error) == [ok |-> ok, result |-> result, error |-> error]

\* The response handle_graph_rpc_client builds for a line it has read.
graph_rpc_response(line, expected_token, handle_is_some) ==
    IF parse_request(line) = None
    THEN GraphRpcResponse(FALSE, None, Some("invalid graph RPC request"))
    ELSE IF rpc_respond(parse_request(line)[1].token = expected_token, handle_is_some)
              = "unauthorized"
         THEN GraphRpcResponse(FALSE, None, Some("unauthorized graph RPC token"))
    ELSE IF rpc_respond(parse_request(line)[1].token = expected_token, handle_is_some)
              = "error"
         THEN GraphRpcResponse(FALSE, None, Some("No repository has been indexed yet"))
    ELSE IF dispatch_graph_rpc_method(parse_request(line)[1].method,
                                      parse_request(line)[1].params).ok
         THEN GraphRpcResponse(TRUE,
                  Some(dispatch_graph_rpc_method(parse_request(line)[1].method,
                                                 parse_request(line)[1].params).value),
                  None)
    ELSE GraphRpcResponse(FALSE, None,
             Some(dispatch_graph_rpc_method(parse_request(line)[1].method,
                                            parse_request(line)[1].params).error))

\* JoinHandle::abort that does nothing.
abort_never(task) == task

\* JoinHandle::abort followed by the await of the handle: a task that has not
\* ended is cancelled.
abort(task) == IF task \in {"accepting", "serving"} THEN "aborted" ELSE task

\* The acceptor task is alive, and with it the listener and the socket.
TaskAlive(task) == task \in {"accepting", "serving"}

\* A connection a client has just made: in the listener's backlog.
NewConn == [accepted |-> FALSE, open |-> TRUE, eof |-> FALSE, lines |-> <<>>,
            read |-> 0, responses |-> <<>>]

\* The listener and the socket are dropped with the task.
closed(conns) == [i \in DOMAIN conns |-> [conns[i] EXCEPT !.open = FALSE]]

\* The connection the acceptor task serves.
served(conns) == {i \in DOMAIN conns : conns[i].accepted /\ conns[i].open}

\* How many times the clients have connected, sent a line or closed.
client_ops(conns) ==
    sum_values([i \in DOMAIN conns |-> 1 + Len(conns[i].lines) + (IF conns[i].eof THEN 1 ELSE 0)],
               DOMAIN conns)

RpcInit ==
    /\ graph = NewGraph
    /\ bm25 = NewBM25
    /\ LibraryUnused
    /\ handle_some \in BOOLEAN
    /\ fs = EmptyMap /\ fs_ops = 0 /\ events = <<>> /\ built = None
    /\ index_pc = "idle" /\ index_result = "" /\ watcher_pc = "idle"
    /\ removed_files = <<>> /\ removed_done = 0 /\ changed_files = {}
    /\ indexed = EmptyMap /\ cur = "" /\ old_ids = {} /\ reader_pc = "idle"
    /\ rpc_open = FALSE /\ last_response = "" /\ rpc = NoRpc

rpc_unused == <<graph, bm25, lib_vars, fs, fs_ops, events, handle_some, built, index_pc,
                index_result, watcher_pc, removed_files, removed_done, changed_files,
                indexed, cur, old_ids, reader_pc, rpc_open>>

\* dispatch_rlm_analyze up to the spawn of the external process: the elements
\* are snapshotted (or the call ends with the not-indexed error), the listener
\* is bound, the token minted and the acceptor task spawned.
RlmStart ==
    /\ ~rpc.running
    /\ ~TaskAlive(rpc.task)
    /\ rpc.invocations < MaxInvocations
    /\ IF dispatch(handle_some) = "evaluate"
       THEN /\ rpc' = [invocations |-> rpc.invocations + 1, running |-> TRUE,
                       token |-> Uuid(rpc.invocations + 1),
                       minted |-> Append(rpc.minted, Uuid(rpc.invocations + 1)),
                       task |-> "accepting", conns |-> <<>>, hand |-> None]
            /\ last_response' = ""
       ELSE /\ rpc' = [rpc EXCEPT !.invocations = @ + 1]
            /\ last_response' = "error_not_indexed"
    /\ UNCHANGED rpc_unused

\* A client connects to the endpoint; the connection waits in the backlog.
Connect ==
    /\ TaskAlive(rpc.task)
    /\ client_ops(rpc.conns) < MaxClientOps
    /\ rpc' = [rpc EXCEPT !.conns = Append(@, NewConn)]
    /\ UNCHANGED <<rpc_unused, last_response>>

\* A client writes a request line on its connection.
Send ==
    /\ client_ops(rpc.conns) < MaxClientOps
    /\ \E i \in DOMAIN rpc.conns, line \in RequestLines :
          /\ rpc.conns[i].open /\ ~rpc.conns[i].eof
          /\ rpc' = [rpc EXCEPT !.conns[i].lines = Append(@, line)]
    /\ UNCHANGED <<rpc_unused, last_response>>

\* A client closes its connection.
ClientClose ==
    /\ client_ops(rpc.conns) < MaxClientOps
    /\ \E i \in DOMAIN rpc.conns :
          /\ rpc.conns[i].open /\ ~rpc.conns[i].eof
          /\ rpc' = [rpc EXCEPT !.conns[i].eof = TRUE]
    /\ UNCHANGED <<rpc_unused, last_response>>

\* listener.accept() in the acceptor task: the oldest waiting connection.
Accept ==
    /\ rpc.task = "accepting"
    /\ rpc.conns # <<>>
    /\ rpc' = [rpc EXCEPT !.task = "serving", !.conns[1].accepted = TRUE]
    /\ UNCHANGED <<rpc_unused, last_response>>

\* read_line in handle_graph_rpc_client: the next line, or the end of the
\* loop at end of input, or the error return.
RpcRead ==
    /\ rpc.task = "serving"
    /\ rpc.hand = None
    /\ \E i \in served(rpc.conns) :
          IF rpc.conns[i].read < Len(rpc.conns[i].lines)
          THEN IF read_line(rpc.conns[i].lines[rpc.conns[i].read + 1]).ok
               THEN rpc' = [rpc EXCEPT !.conns[i].read = @ + 1,
                               !.hand = Some(rpc.conns[i].lines[rpc.conns[i].read + 1])]
               ELSE rpc' = [rpc EXCEPT !.task = "ended",
                               !.conns = closed([rpc.conns EXCEPT ![i].read = @ + 1])]
          ELSE /\ rpc.conns[i].eof
               /\ rpc' = [rpc EXCEPT !.task = "ended", !.conns = closed(@)]
    /\ UNCHANGED <<rpc_unused, last_response>>

\* The rest of the loop body: the response is built and written, or the
\* write to a connection the client has closed fails.
RpcWrite ==
    /\ rpc.task = "serving"
    /\ rpc.hand # None
    /\ \E i \in served(rpc.conns) :
          \/ rpc' = [rpc EXCEPT !.hand = None,
                        !.conns[i].responses =
                            Append(@, graph_rpc_response(rpc.hand[1], rpc.token, handle_some))]
          \/ /\ rpc.conns[i].eof
             /\ rpc' = [rpc EXCEPT !.hand = None, !.task = "ended", !.conns = closed(@)]
    /\ UNCHANGED <<rpc_unused, last_response>>

\* The external process has completed: server_task.abort(), the await of
\* the task, and the return of dispatch_rlm_analyze.
RlmComplete ==
    /\ rpc.running
    /\ rpc' = [rpc EXCEPT !.running = FALSE,
                          !.task = abort(@),
                          !.hand = IF TaskAlive(abort(rpc.task)) THEN @ ELSE None,
                          !.conns = IF TaskAlive(abort(rpc.task)) THEN @ ELSE closed(@)]
    /\ UNCHANGED <<rpc_unused, last_response>>

RpcNext ==
    \/ RlmStart
    \/ Connect
    \/ Send
    \/ ClientClose
    \/ Accept
    \/ RpcRead
    \/ RpcWrite
    \/ RlmComplete

RpcSpec == RpcInit /\ [][RpcNext]_vars

\* ------------------------------------------------------------------------
\* Properties of the graph as a library
\* ------------------------------------------------------------------------

ids_of(elements) == {elements[i].id : i \in 1..Len(elements)}

\* The live nodes of g that belong to a file other than file_path.
nodes_outside(g, file_path) == {i \in live_nodes(g) : g.nodes[i][1].file_path # file_path}

\* C1: update_file(p, new, root) replaces exactly the nodes of p. After a
\* completed call get_source is absent for every id that was in p and is not
\* in new and present for every element of new; every node, arena entry and
\* id/name/file index entry of another file is as before; node_count is the
\* number of nodes outside p before the call plus |new|.
C1_UpdateFileReplacesTheFile ==
    (last_call.op = "update_file" /\ api_pc = "ready") =>
        LET p == last_call.file_path
            new == last_call.new_elements
            was_in_p == Range(element_ids_for_file(pre_graph, p))
            outside == nodes_outside(pre_graph, p)
        IN /\ \A id \in was_in_p \ ids_of(new) : get_source(graph, id) = None
           /\ \A i \in 1..Len(new) : get_source(graph, new[i].id) # None
           /\ \A i \in outside :
                LET id == pre_graph.nodes[i][1].id
                IN /\ graph.nodes[i] = pre_graph.nodes[i]
                   /\ id \in DOMAIN graph.id_to_node
                   /\ graph.id_to_node[id] = pre_graph.id_to_node[id]
                   /\ id \in DOMAIN graph.element_arena
                   /\ graph.element_arena[id] = pre_graph.element_arena[id]
           /\ \A q \in DOMAIN pre_graph.file_to_nodes \ {p} :
                /\ q \in DOMAIN graph.file_to_nodes
                /\ graph.file_to_nodes[q] = pre_graph.file_to_nodes[q]
           /\ \A name \in DOMAIN pre_graph.name_to_nodes :
                /\ name \in DOMAIN graph.name_to_nodes
                /\ SelectSeq(graph.name_to_nodes[name], LAMBDA i : i \in outside)
                     = SelectSeq(pre_graph.name_to_nodes[name], LAMBDA i : i \in outside)
           /\ stats(graph).node_count = Cardinality(outside) + Len(new)

\* An update of a file that drops an old element, next to another indexed file.
C1_Witness ==
    /\ last_call.op = "update_file"
    /\ api_pc = "ready"
    /\ Range(element_ids_for_file(pre_graph, last_call.file_path))
          \ ids_of(last_call.new_elements) # {}
    /\ nodes_outside(pre_graph, last_call.file_path) # {}
    /\ Len(last_call.new_elements) > 1

\* C2: after remove_file(p), in any state reached by build_from_elements,
\* update_file and remove_file, file_to_nodes has no key p, no index refers to
\* a node that was in file_to_nodes[p], the graph holds neither those nodes
\* nor an edge incident on them, and file_imports[p] is absent.
C2_RemoveFileLeavesNoReference ==
    last_call.op = "remove_file" =>
        LET p == last_call.file_path
            gone == IF p \in DOMAIN pre_graph.file_to_nodes
                    THEN Range(pre_graph.file_to_nodes[p]) ELSE {}
        IN /\ p \notin DOMAIN graph.file_to_nodes
           /\ p \notin DOMAIN graph.file_imports
           /\ \A idx \in gone :
                LET id == pre_graph.nodes[idx][1].id
                IN /\ id \notin DOMAIN graph.id_to_node
                   /\ id \notin DOMAIN graph.element_arena
                   /\ get_source(graph, id) = None
                   /\ \A name \in DOMAIN graph.name_to_nodes :
                        idx \notin Range(graph.name_to_nodes[name])
                   /\ graph.nodes[idx] = None
                   /\ \A k \in 1..Len(graph.edges) :
                        graph.edges[k].from # idx /\ graph.edges[k].to # idx

\* A removal of a file that had several nodes, edges on them and imports.
C2_Witness ==
    /\ last_call.op = "remove_file"
    /\ last_call.file_path \in DOMAIN pre_graph.file_to_nodes
    /\ last_call.file_path \in DOMAIN pre_graph.file_imports
    /\ Len(pre_graph.file_to_nodes[last_call.file_path]) > 1
    /\ \E k \in 1..Len(pre_graph.edges) :
          pre_graph.edges[k].to \in Range(pre_graph.file_to_nodes[last_call.file_path])
    /\ calls_made > 1

\* C3: after build_from_elements and any update_file and remove_file calls,
\* every non-file node has exactly one incoming defines edge, and that edge
\* leaves the file-kind node with the node's file_path.
C3_ExactlyOneDefinesEdge ==
    api_pc = "ready" =>
        \A i \in live_nodes(graph) :
            graph.nodes[i][1].kind # "file" =>
                LET into == {k \in 1..Len(graph.edges) :
                                graph.edges[k].kind = "defines" /\ graph.edges[k].to = i}
                IN /\ Cardinality(into) = 1
                   /\ \A k \in into :
                        LET from == graph.nodes[graph.edges[k].from][1]
                        IN from.kind = "file" /\ from.file_path = graph.nodes[i][1].file_path

\* C4: id_to_node maps the id of each live node to that node, no two live
\* nodes share an id, and get_source(e.id) is e.code for every element given
\* to build_from_elements or to the latest update_file of its file.
C4_IdsUniqueAndSourceMatches ==
    api_pc = "ready" =>
        /\ \A i \in live_nodes(graph) :
              /\ graph.nodes[i][1].id \in DOMAIN graph.id_to_node
              /\ graph.id_to_node[graph.nodes[i][1].id] = i
        /\ \A i, j \in live_nodes(graph) :
              i # j => graph.nodes[i][1].id # graph.nodes[j][1].id
        /\ \A p \in DOMAIN given : \A k \in 1..Len(given[p]) :
              get_source(graph, given[p][k].id) = Some(given[p][k].code)

\* The calls an element makes, as build_call_edges reads them from its code.
calls_of(e) ==
    IF e.element_type \in {"function", "method"}
    THEN extract_calls(parse(e.code, "python")[1], e.code, "python")
    ELSE <<>>

\* The targets of the calls edges that leave node from.
callees_of(g, from) ==
    {g.edges[x].to : x \in {y \in 1..Len(g.edges) :
                               g.edges[y].kind = "calls" /\ g.edges[y].from = from}}

\* C11: when a function or method of file A calls name f and nodes named f
\* exist in A and in other files, the calls edge from the caller to a node
\* named f targets the first node named f of A (and a caller that is that node
\* has no such edge), whatever A imports and in whatever order the files were
\* indexed.
C11_SameFileCalleeWins ==
    api_pc = "ready" =>
        \A p \in DOMAIN given : \A k \in 1..Len(given[p]) :
            \A c \in 1..Len(calls_of(given[p][k])) :
                LET f == calls_of(given[p][k])[c].call_name
                    caller == graph.id_to_node[given[p][k].id]
                    here == SelectSeq(find_nodes_by_name(graph, f),
                                      LAMBDA i : graph.nodes[i][1].file_path = p)
                IN (here # <<>> /\ Len(here) < Len(find_nodes_by_name(graph, f))) =>
                      {i \in callees_of(graph, caller) : graph.nodes[i][1].name = f}
                         = {here[1]} \ {caller}

\* A caller in a.py calls bar, which a.py defines and also imports from b.py;
\* b.py's bar is the first node of that name, and the edge goes to a.py's bar.
C11_Witness ==
    /\ api_pc = "ready"
    /\ FileA \in DOMAIN given
    /\ \E k \in 1..Len(given[FileA]) :
          /\ given[FileA][k].name = "baz"
          /\ FileA \in DOMAIN graph.file_imports
          /\ "bar" \in Range(graph.file_imports[FileA])
          /\ find_nodes_by_name(graph, "bar") # <<>>
          /\ graph.nodes[find_nodes_by_name(graph, "bar")[1]][1].file_path = FileB
          /\ \E i \in callees_of(graph, graph.id_to_node[given[FileA][k].id]) :
                graph.nodes[i][1].name = "bar" /\ graph.nodes[i][1].file_path = FileA

\* An edge of the kind goes from node a to node b.
joined(g, a, b, kind) ==
    \E x \in 1..Len(g.edges) :
        g.edges[x].from = a /\ g.edges[x].to = b /\ g.edges[x].kind = kind

\* C12: each kind-filtered query returns a node n exactly when an edge of the
\* queried kind joins n and a candidate node in the queried direction, also
\* when the two nodes are joined by edges of several kinds, whether the edges
\* were added by build_from_elements or by update_file.
C12_QueriesFollowEdgesOfTheirKind ==
    api_pc = "ready" =>
        /\ \A name \in DOMAIN graph.name_to_nodes \cup {"nobody"} :
              \A n \in live_nodes(graph) :
                 /\ n \in Range(find_callers(graph, name))
                      <=> \E c \in Range(find_nodes_by_name(graph, name)) :
                              joined(graph, n, c, "calls")
                 /\ n \in Range(find_callees(graph, name))
                      <=> \E c \in Range(find_nodes_by_name(graph, name)) :
                              joined(graph, c, n, "calls")
                 /\ n \in Range(get_subclasses(graph, name))
                      <=> \E c \in Range(find_nodes_by_name(graph, name)) :
                              joined(graph, n, c, "inherits")
                 /\ n \in Range(get_superclasses(graph, name))
                      <=> \E c \in Range(find_nodes_by_name(graph, name)) :
                              joined(graph, c, n, "inherits")
        /\ \A p \in SourceFiles \cup {FileTxt} :
              \A n \in live_nodes(graph) :
                 /\ n \in Range(get_dependencies(graph, p))
                      <=> \E c \in Range(file_nodes_of(graph, p)) :
                              joined(graph, c, n, "imports")
                 /\ n \in Range(get_dependents(graph, p))
                      <=> \E c \in Range(file_nodes_of(graph, p)) :
                              joined(graph, n, c, "imports")

\* The nodes within n edges of a set of nodes, along the edges or either way.
RECURSIVE within(_, _, _, _)
within(g, S, n, directed) ==
    IF n = 0 THEN S
    ELSE within(g, S \cup {e.to : e \in {d \in Range(g.edges) : d.from \in S}}
                     \cup (IF directed THEN {}
                           ELSE {e.from : e \in {d \in Range(g.edges) : d.to \in S}}),
                n - 1, directed)

\* The fewest edges from a to b, -1 when there is no path.
distance(g, a, b, directed) ==
    IF b \notin within(g, {a}, Len(g.nodes), directed) THEN -1
    ELSE CHOOSE n \in 0..Len(g.nodes) :
            /\ b \in within(g, {a}, n, directed)
            /\ \A k \in 0..(n - 1) : b \notin within(g, {a}, k, directed)

\* The (source-candidate, target-candidate) positions that are connected.
connected_pairs(g, source, target) ==
    {ij \in (1..Len(find_nodes_by_name(g, source))) \X (1..Len(find_nodes_by_name(g, target))) :
        distance(g, find_nodes_by_name(g, source)[ij[1]],
                 find_nodes_by_name(g, target)[ij[2]], TRUE) >= 0}

first_pair(pairs) ==
    CHOOSE ij \in pairs : \A other \in pairs :
        ij[1] < other[1] \/ (ij[1] = other[1] /\ ij[2] <= other[2])

\* C13: find_path(s, t, None) returns the ids of a directed path with the
\* fewest edges between the first connected (source, target) candidate pair,
\* consecutive ids being joined by an edge; find_path(a, a, _) returns [a]
\* when a node named a exists; the result is absent when no candidate pair
\* is connected or a name has no node.
C13_FindPathIsShortestOfFirstConnectedPair ==
    (answer # None /\ last_call.op = "find_path") =>
        LET srcs == find_nodes_by_name(graph, last_call.source)
            tgts == find_nodes_by_name(graph, last_call.target)
            conn == connected_pairs(graph, last_call.source, last_call.target)
            out == answer[1]
        IN /\ (last_call.source = last_call.target /\ srcs # <<>>) =>
                  out = [kind |-> "some", path |-> <<graph.nodes[srcs[1]][1].id>>]
           /\ (last_call.edge_filter = None /\ conn = {}) => out.kind = "none"
           /\ (last_call.edge_filter = None /\ conn # {}) =>
                  LET src == srcs[first_pair(conn)[1]]
                      tgt == tgts[first_pair(conn)[2]]
                  IN /\ out.kind = "some"
                     /\ Len(out.path) = distance(graph, src, tgt, TRUE) + 1
                     /\ out.path[1] = graph.nodes[src][1].id
                     /\ out.path[Len(out.path)] = graph.nodes[tgt][1].id
                     /\ \A i \in 1..(Len(out.path) - 1) :
                          \E x \in 1..Len(graph.edges) :
                             /\ graph.nodes[graph.edges[x].from][1].id = out.path[i]
                             /\ graph.nodes[graph.edges[x].to][1].id = out.path[i + 1]

\* A longer path exists beside the one returned, and the first candidate
\* pair is not the connected one.
C13_Witness ==
    /\ answer # None /\ last_call.op = "find_path"
    /\ last_call.source = "s" /\ last_call.target = "t" /\ last_call.edge_filter = None
    /\ answer[1] = [kind |-> "some", path |-> <<"s2", "t1">>]
    /\ Len(graph.nodes) = 5
    /\ \E x, y \in 1..Len(graph.edges) :
          /\ graph.edges[x].from = 4 /\ graph.edges[x].to = 2
          /\ graph.edges[y].from = 2 /\ graph.edges[y].to = 3

\* The graph with only its edges of one kind.
only(g, kind) == [g EXCEPT !.edges = SelectSeq(@, LAMBDA e : e.kind = kind)]

\* Every two consecutive ids of a path are joined by an edge of the kind.
made_of(g, path, kind) ==
    \A i \in 1..(Len(path) - 1) :
        \E x \in 1..Len(g.edges) :
           /\ g.edges[x].kind = kind
           /\ g.nodes[g.edges[x].from][1].id = path[i]
           /\ g.nodes[g.edges[x].to][1].id = path[i + 1]

\* C14: with edge_filter = Some(k), whenever a directed path of k-kind edges
\* only leads from a node of the source name to a node of the target name,
\* find_path returns a path made only of k-kind edges.
C14_FilteredPathIsReturnedWhenOneExists ==
    (answer # None /\ last_call.op = "find_path" /\ last_call.edge_filter # None) =>
        (connected_pairs(only(graph, last_call.edge_filter[1]),
                         last_call.source, last_call.target) # {}
            => /\ answer[1].kind = "some"
               /\ made_of(graph, answer[1].path, last_call.edge_filter[1]))

\* The same for the candidate pair find_path answers for: when the first
\* connected pair is joined by a path of k-kind edges, the path returned is
\* one of them, and no score addition overflows on the way.
FilteredPathOfFirstPair ==
    (answer # None /\ last_call.op = "find_path" /\ last_call.edge_filter # None) =>
        LET conn == connected_pairs(graph, last_call.source, last_call.target)
            srcs == find_nodes_by_name(graph, last_call.source)
            tgts == find_nodes_by_name(graph, last_call.target)
        IN (/\ conn # {}
            /\ distance(only(graph, last_call.edge_filter[1]), srcs[first_pair(conn)[1]],
                        tgts[first_pair(conn)[2]], TRUE) >= 0)
            => /\ answer[1].kind = "some"
               /\ made_of(graph, answer[1].path, last_call.edge_filter[1])
               /\ answer[1].path[1] = graph.nodes[srcs[first_pair(conn)[1]]][1].id

\* C15: get_related(name, h) returns exactly the nodes that are no seed and
\* whose undirected edge distance from some node named name is between 1 and
\* h, each of them once; for h = 0 or a name without node the list is empty.
C15_GetRelatedIsTheNeighbourhood ==
    (answer # None /\ last_call.op = "get_related") =>
        LET seeds == Range(find_nodes_by_name(graph, last_call.element_name))
            near == {n \in (1..Len(graph.nodes)) \ seeds :
                        \E seed \in seeds :
                            /\ distance(graph, seed, n, FALSE) >= 1
                            /\ distance(graph, seed, n, FALSE) <= last_call.max_hops}
        IN /\ Range(answer[1]) = {graph.nodes[n][1].id : n \in near}
           /\ Len(answer[1]) = Cardinality(near)
           /\ (last_call.max_hops = 0 \/ seeds = {}) => answer[1] = <<>>

\* A node two edges away is returned, one three edges away is not.
C15_Witness ==
    /\ answer # None /\ last_call.op = "get_related"
    /\ last_call.element_name = "m" /\ last_call.max_hops = 2
    /\ Len(graph.nodes) = 5
    /\ distance(graph, 2, 4, FALSE) = 2
    /\ distance(graph, 2, 5, FALSE) = 3
    /\ "s2" \in Range(answer[1])
    /\ "t2" \notin Range(answer[1])

\* C16: build_from_elements and update_file complete for element lists that
\* contain class, struct or interface elements.
C16_ClassElementsDoNotAbortTheBuild ==
    (/\ last_call.op \in {"build_from_elements", "update_file"}
     /\ \E k \in 1..Len(last_call.new_elements) :
           last_call.new_elements[k].element_type \in {"class", "struct", "interface"})
        => api_pc = "ready"

\* C17: after a build_from_elements or update_file that returned, every
\* calls edge goes from a function or method node to a function or method
\* node.
C17_CallsEdgesJoinFunctions ==
    api_pc = "ready" =>
        \A x \in 1..Len(graph.edges) :
            graph.edges[x].kind = "calls" =>
                /\ graph.nodes[graph.edges[x].from][1].kind \in {"function", "method"}
                /\ graph.nodes[graph.edges[x].to][1].kind \in {"function", "method"}

\* C18: after any sequence of add_document and remove_document calls, len()
\* is the number of distinct document ids that are indexed.
C18_LenCountsTheIndexedIds ==
    last_call.op \in {"add_document", "remove_document"} =>
        len(bm25) = Cardinality(DOMAIN given)

\* C19: after remove_document(id) no posting list holds id and no search
\* returns it; remove_document of an id that is not indexed changes nothing.
C19_RemovedIdIsGoneFromPostingsAndSearch ==
    last_call.op = "remove_document" =>
        /\ \A token \in DOMAIN bm25.inverted_index :
              last_call.doc_id \notin Range(bm25.inverted_index[token])
        /\ answer # None => last_call.doc_id \notin answer[1].ids
        /\ last_call.doc_id \notin DOMAIN pre_graph.documents => bm25 = pre_graph

\* C20: after GlobalIndex::remove_file(p), file_to_module(p) is absent,
\* resolve_module(m) is absent for the module path m that p had,
\* resolve_symbol(s) holds no pair of file p for any symbol s, and no export
\* key is left with an empty list.
C20_RemoveFileClearsTheGlobalIndex ==
    last_call.op = "global_index.remove_file" =>
        /\ file_to_module(graph, last_call.file_path) = None
        /\ file_to_module(pre_graph, last_call.file_path) # None =>
              resolve_module(graph, file_to_module(pre_graph, last_call.file_path)[1]) = None
        /\ \A s \in DOMAIN pre_graph.export_map \cup DOMAIN graph.export_map :
              \A i \in 1..Len(resolve_symbol(graph, s)) :
                  resolve_symbol(graph, s)[i][1] # last_call.file_path
        /\ \A s \in DOMAIN pre_graph.export_map :
              (\A i \in 1..Len(pre_graph.export_map[s]) :
                   pre_graph.export_map[s][i][1] = last_call.file_path)
                 => s \notin DOMAIN graph.export_map
        /\ \A s \in DOMAIN graph.export_map : graph.export_map[s] # <<>>

\* The removed file had a module path and exports, one export key went with
\* it and one stays for another file.
C20_Witness ==
    /\ last_call.op = "global_index.remove_file"
    /\ last_call.file_path = FileA
    /\ file_to_module(pre_graph, FileA) = Some("a")
    /\ resolve_module(pre_graph, "a") # None
    /\ "baz" \in DOMAIN pre_graph.export_map /\ "baz" \notin DOMAIN graph.export_map
    /\ "bar" \in DOMAIN graph.export_map
    /\ Len(resolve_symbol(pre_graph, "bar")) > Len(resolve_symbol(graph, "bar"))

\* C29: GlobalIndex::remove_file(p) changes no mapping of another file: for
\* every indexed file q other than p, file_to_module(q) and the result of
\* resolve_module for q's module path are the same before and after.
C29_RemoveFileLeavesOtherFilesMapped ==
    last_call.op = "global_index.remove_file" =>
        \A q \in DOMAIN pre_graph.file_map \ {last_call.file_path} :
            /\ file_to_module(graph, q) = file_to_module(pre_graph, q)
            /\ resolve_module(graph, file_to_module(pre_graph, q)[1])
                 = resolve_module(pre_graph, file_to_module(pre_graph, q)[1])

\* The documents of the index that contain the token.
documents_with(ix, token) ==
    {d \in DOMAIN ix.documents : token \in Range(ix.documents[d])}

\* C30: the idf search computes for a token t of the query uses df(t) = the
\* number of distinct indexed documents that contain t: occurrences of t
\* repeated inside one document do not raise df. Stated for indexes in which
\* every id was added once (num_docs is then the number of indexed documents).
C30_DfCountsDistinctDocuments ==
    (answer # None /\ bm25.num_docs = Cardinality(DOMAIN bm25.documents)) =>
        \A t \in DOMAIN answer[1].idf :
            answer[1].idf[t][2] = 2 * Cardinality(documents_with(bm25, t)) + 1

\* The import records of the file whose file node is node i of g.
imports_of(g, i) ==
    IF g.nodes[i][1].id \in DOMAIN g.element_arena
    THEN extract_imports(parse(g.element_arena[g.nodes[i][1].id].code, "python")[1],
                         g.element_arena[g.nodes[i][1].id].code, "python")
    ELSE <<>>

\* Node to is the file node of the file the module resolver returns for the
\* import.
resolver_target(g, import, file_path, to) ==
    /\ resolve_import(g, import, file_path) # None
    /\ file_node_of(g, resolve_import(g, import, file_path)[1]) = Some(to)

\* Node to is an element named by one of the import's names other than *.
named_target(g, import, to) ==
    g.nodes[to][1].name \in Range(import.names) \ {"*"}

\* The imports edges of g that leave a file node.
file_import_edges(g) ==
    {x \in 1..Len(g.edges) :
        g.edges[x].kind = "imports" /\ g.nodes[g.edges[x].from][1].kind = "file"}

fallback_target(g, import, to) ==
    \/ g.nodes[to][1].name = import.module
    \/ g.nodes[to][1].name
          = SubSeq(import.module, rfind(import.module, ".") + 1, Len(import.module))
    \/ /\ g.nodes[to][1].kind = "file"
       /\ contains(g.nodes[to][1].file_path,
                   replace(replace(import.module, ".", "/"), "::", "/"))

C26_ImportedCalleeWins ==
    (/\ api_pc = "ready"
     /\ DOMAIN given \cap OtherFiles # {}
     /\ last_call.op = "build_from_elements" \/ last_call.file_path = FileA) =>
        \A k \in 1..Len(given[FileA]) :
            given[FileA][k].name = "baz" =>
                \A i \in callees_of(graph, graph.id_to_node[given[FileA][k].id]) :
                    graph.nodes[i][1].name = "bar" => graph.nodes[i][1].file_path = FileB

\* C26 for the repositories whose other file has a module path that does not
\* begin with the letters of an imported module or name.
C26_ImportedCalleeWinsOverModuleC ==
    FileC \in DOMAIN given => C26_ImportedCalleeWins

\* The edges of g that leave a node of a file other than file_path, in order.
edges_from_outside(g, file_path) ==
    SelectSeq(g.edges, LAMBDA e : g.nodes[e.from][1].file_path # file_path)

\* The edges of g that join two nodes of files other than file_path, in order.
edges_outside(g, file_path) ==
    SelectSeq(g.edges, LAMBDA e : /\ g.nodes[e.from][1].file_path # file_path
                                  /\ g.nodes[e.to][1].file_path # file_path)

\* C25: a completed update_file(p, new, root) adds no edge whose source is a
\* node of another file and changes no edge between two nodes of other files;
\* every edge from another file's node to a node of p is removed and none is
\* created, so the edges that leave other files' nodes are, afterwards, the
\* edges that joined other files' nodes before; and find_callers of a name
\* that only p defines lists no caller of another file.
C25_UpdateFileRebuildsOnlyItsOwnEdges ==
    (last_call.op = "update_file" /\ api_pc = "ready") =>
        /\ edges_from_outside(graph, last_call.file_path)
             = edges_outside(pre_graph, last_call.file_path)
        /\ \A k \in 1..Len(last_call.new_elements) :
              (\A i \in Range(find_nodes_by_name(graph, last_call.new_elements[k].name)) :
                    graph.nodes[i][1].file_path = last_call.file_path)
              => \A c \in Range(find_callers(graph, last_call.new_elements[k].name)) :
                    graph.nodes[c][1].file_path = last_call.file_path

\* update_file(b.py, new) with new the very elements b.py was indexed with,
\* on a graph in which a function of a.py called bar of b.py: afterwards bar
\* is in the graph and has no caller.
C25_Witness ==
    /\ last_call.op = "update_file" /\ api_pc = "ready"
    /\ last_call.file_path = FileB
    /\ \E x \in 1..Len(pre_graph.edges) :
          /\ pre_graph.edges[x].kind = "calls"
          /\ pre_graph.nodes[pre_graph.edges[x].from][1].file_path = FileA
          /\ pre_graph.nodes[pre_graph.edges[x].to][1].file_path = FileB
          /\ pre_graph.nodes[pre_graph.edges[x].to][1].name = "bar"
    /\ \A k \in 1..Len(last_call.new_elements) :
          /\ last_call.new_elements[k].id \in DOMAIN pre_graph.element_arena
          /\ pre_graph.element_arena[last_call.new_elements[k].id] = last_call.new_elements[k]
    /\ Len(last_call.new_elements) = Len(element_ids_for_file(pre_graph, FileB))
    /\ find_nodes_by_name(graph, "bar") # <<>>
    /\ find_callers(graph, "bar") = <<>>

\* The version in the header of a file, when the file holds a whole header.
stored_version(data) ==
    IF /\ Len(data) >= 1
       /\ Len(data) >= 1 + from_le_bytes(data[1])[1]
       /\ deserialize_header(SubSeq(data, 2, 1 + from_le_bytes(data[1])[1])) # None
    THEN Some(deserialize_header(SubSeq(data, 2, 1 + from_le_bytes(data[1])[1]))[1].version)
    ELSE None

\* C23: load_elements and load_bm25 return an error, and no payload, whenever
\* the version stored in the file's header is not 1.
C23_OtherVersionIsRefused ==
    (/\ answer # None
     /\ answer[1].data # None
     /\ stored_version(answer[1].data[1]) # None
     /\ stored_version(answer[1].data[1]) # Some(1)) => ~answer[1].result.ok

\* C23 for load_bm25 alone.
C23_Bm25OfOtherVersionIsRefused ==
    (answer # None /\ answer[1].op = "load_bm25") => C23_OtherVersionIsRefused

\* C24: at every step of a save, and after a save that failed between steps,
\* the destination holds its complete previous content (or is absent as it
\* was) or the complete new content.
C24_DestinationIsPreviousOrNew ==
    last_call.op \in {"save_elements", "save_bm25"} =>
        read(fs, last_call.path) \in {last_call.previous, Some(last_call.output)}

\* C24 for the destinations whose extension is not tmp.
C24_DestinationOfOtherExtensionIsPreviousOrNew ==
    (/\ last_call.op \in {"save_elements", "save_bm25"}
     /\ extension(last_call.path) # Some("tmp")) => C24_DestinationIsPreviousOrNew

\* The line is one the server must refuse: not a request object, another
\* token, an unknown method, or a required parameter missing.
refused(line, expected_token) ==
    \/ line.form # "json"
    \/ line.token # expected_token
    \/ line.method \notin {"find_callers", "stats"}
    \/ line.method = "find_callers" /\ "symbol" \notin line.params

\* The lines read on connection c were answered one by one and in order (the
\* last one may be the one in work), a method ran only for the minted token,
\* and every refused line got ok = false with an error string.
answered_in_order(c) ==
    /\ c.read = Len(c.responses) + (IF rpc.hand = None THEN 0 ELSE 1)
    /\ \A k \in 1..Len(c.responses) :
          /\ c.responses[k].ok => (c.lines[k].form = "json" /\ c.lines[k].token = rpc.token)
          /\ refused(c.lines[k], rpc.token) =>
                (~c.responses[k].ok /\ c.responses[k].error # None)

\* C21: while the invocation runs, on the accepted connection (the client not
\* having closed it) every request line read is answered by exactly one
\* response, written before the next line is read; a method is dispatched only
\* for a request whose token equals the minted token byte for byte; a line
\* that is not a valid request, carries another token, names an unknown method
\* or lacks a required parameter is answered with ok = false and an error, and
\* the connection stays open and served.
C21_EveryLineIsAnsweredAndTheConnectionStaysOpen ==
    rpc.running =>
        \A i \in DOMAIN rpc.conns :
            (rpc.conns[i].accepted /\ ~rpc.conns[i].eof) =>
                /\ rpc.conns[i].open
                /\ rpc.task = "serving"
                /\ answered_in_order(rpc.conns[i])

\* C21 for the connections on which every line read so far was valid UTF-8.
C21_Utf8LinesAreAnsweredAndTheConnectionStaysOpen ==
    rpc.running =>
        \A i \in DOMAIN rpc.conns :
            (/\ rpc.conns[i].accepted /\ ~rpc.conns[i].eof
             /\ \A k \in 1..rpc.conns[i].read : rpc.conns[i].lines[k].form # "not_utf8") =>
                /\ rpc.conns[i].open
                /\ rpc.task = "serving"
                /\ answered_in_order(rpc.conns[i])

\* A refused line was answered with an error and the valid request after it
\* with a result.
C21_ErrorThenResultReached ==
    /\ rpc.running
    /\ \E i \in DOMAIN rpc.conns :
          /\ Len(rpc.conns[i].responses) = 2
          /\ ~rpc.conns[i].responses[1].ok
          /\ rpc.conns[i].responses[2].ok

\* How many responses the server has written on the connections of r.
responses_written(r) ==
    sum_values([i \in DOMAIN r.conns |-> Len(r.conns[i].responses)], DOMAIN r.conns)

\* The tokens minted so far are all different, at most one connection of the
\* invocation was accepted, a connection that was not accepted had nothing
\* read and nothing answered, and after the return of the invocation the
\* acceptor task is not alive.
one_connection_served(r) ==
    /\ \A m, n \in DOMAIN r.minted : r.minted[m] = r.minted[n] => m = n
    /\ Cardinality({i \in DOMAIN r.conns : r.conns[i].accepted}) <= 1
    /\ \A i \in DOMAIN r.conns :
          ~r.conns[i].accepted => (r.conns[i].read = 0 /\ r.conns[i].responses = <<>>)
    /\ ~r.running => ~TaskAlive(r.task)

\* C22: each rlm_analyze invocation mints a fresh token and its acceptor
\* accepts at most one connection: a connection attempted after the first is
\* never served; once the external process has completed the acceptor task is
\* aborted, and no request is answered after the invocation has returned
\* (every step that writes a response is taken while the invocation runs).
C22_OneConnectionServedUntilTheReturn ==
    [][/\ one_connection_served(rpc')
       /\ responses_written(rpc') > responses_written(rpc) => rpc.running]_vars

\* An invocation has returned with its acceptor task aborted: the first
\* connection had a request answered, the second had sent a request and was
\* never accepted or answered.
C22_Witness ==
    /\ ~rpc.running
    /\ rpc.task = "aborted"
    /\ Len(rpc.conns) = 2
    /\ rpc.conns[1].accepted /\ rpc.conns[1].responses # <<>>
    /\ ~rpc.conns[2].accepted /\ rpc.conns[2].lines # <<>> /\ rpc.conns[2].responses = <<>>

\* ------------------------------------------------------------------------
\* Properties of the session
\* ------------------------------------------------------------------------

\* The element ids the graph holds: the ids of its live nodes.
graph_element_ids(g) == {g.nodes[i][1].id : i \in live_nodes(g)}

\* The body of a tick has run to its end and the guard is about to drop.
TickEnd ==
    /\ watcher_pc = "locked"
    /\ next_in_tick(removed_files, removed_done, changed_files, indexed) = "end"

C6_ReadersSeeNoPartialUpdate ==
    reader_pc # "idle" => (~WriterHeld /\ ~PartlyApplied)

\* The watcher task has ended: FileWatcher::new failed, or a panic unwound it
\* (or took the process down).
WatcherEnded == watcher_pc \in {"stopped", "panicked", "aborted"}

\* No tick is running and the graph holds exactly the elements of the current
\* text of path, which BM25 search can return.
Applied(path) ==
    /\ handle_some
    /\ ~WriterHeld
    /\ \A got \in {index_single_file(fs, path, RepoRoot)} :
          got # None =>
              /\ element_ids_for_file(graph, path)
                   = [i \in 1..Len(got[1]) |-> got[1][i].id]
              /\ get_source(graph, got[1][1].id) = Some(got[1][1].code)
              /\ \A i \in 1..Len(got[1]) :
                    got[1][i].id \in search_ids(bm25, got[1][i].name)

\* C7: every create or modify event queued after the watcher started, for a
\* readable, parseable file with a recognised extension, is eventually
\* applied: a later tick ends with the graph holding exactly the file's new
\* elements and BM25 search able to return them. Only the watcher task applies
\* events, so the claim requires that the task never ends while a change it
\* has drained is not applied; a run that reaches such a state never applies
\* it, whatever the scheduling.
C7_NoDrainedChangeIsLeftUnapplied ==
    \A p \in changed_files :
        (WatcherEnded /\ index_single_file(fs, p, RepoRoot) # None) => Applied(p)

\* C8: once the indexing task has completed, the shared handle is populated,
\* for every repository including one in which the walker finds no elements.
C8_CompletedIndexingPopulatesHandle ==
    (index_pc = "done" /\ index_result # "panicked") => handle_some

\* C9: while the shared handle is None, every tool dispatch and every
\* authenticated RPC request is answered with an error and no query is
\* evaluated, and the watcher task has opened no watcher, taken no write lock
\* and applied no update.
C9_NothingRunsBeforeTheHandleIsPopulated ==
    ~handle_some =>
        /\ last_response \in {"", "error_not_indexed", "unauthorized"}
        /\ reader_pc = "idle"
        /\ watcher_pc = "poll"
        /\ ~Watching
        /\ ~WriterHeld
        /\ events = <<>>
        /\ graph = NewGraph
        /\ bm25 = NewBM25

\* A tool call was refused after the indexing task ended without a handle,
\* while the files kept changing.
C9_Witness ==
    /\ ~handle_some
    /\ index_pc = "done"
    /\ last_response = "error_not_indexed"
    /\ fs_ops > 0
    /\ DOMAIN fs # {}

\* C10: within a tick every path of the removed set is removed (BM25 and
\* graph) before any path of the changed set is re-indexed, so a path in both
\* sets that is readable when processed ends the tick indexed with the
\* elements read.
C10_RemovalsBeforeChanges ==
    /\ DOMAIN indexed # {} => removed_done = Len(removed_files)
    /\ TickEnd =>
          \A p \in Range(removed_files) \cap changed_files :
              indexed[p] # None =>
                  /\ element_ids_for_file(graph, p)
                       = [i \in 1..Len(indexed[p][1]) |-> indexed[p][1][i].id]
                  /\ get_source(graph, indexed[p][1][1].id) = Some(indexed[p][1][1].code)
                  /\ ids_of(indexed[p][1]) \subseteq DOMAIN bm25.documents

\* A tick ends that had a readable path in both its sets.
C10_Witness ==
    /\ TickEnd
    /\ \E p \in Range(removed_files) \cap changed_files : indexed[p] # None

\* C27: after the initial build and after every watcher tick (and between the
\* files of a tick), every (file, id) pair resolve_symbol returns names an
\* element present in the graph, and every file resolve_module returns is a
\* file indexed in the graph.
C27_GlobalIndexRefersToTheGraph ==
    (handle_some /\ ~PartlyApplied /\ ProcessAlive) =>
        /\ \A symbol \in DOMAIN graph.export_map :
              \A i \in 1..Len(resolve_symbol(graph, symbol)) :
                  get_source(graph, resolve_symbol(graph, symbol)[i][2]) # None
        /\ \A module_path \in DOMAIN graph.module_map :
              resolve_module(graph, module_path)[1] \in DOMAIN graph.file_to_nodes

====
